---------------------------- MODULE Spec2Model ----------------------------
(***************************************************************************)
(* BerberBook data-access layer: lib/db.ts (pool bootstrap, retrying query  *)
(* executor, schema maintenance), the server actions and the              *)
(* administrative endpoints.                                                *)
(*                                                                          *)
(* These specifications share the module:                                   *)
(*   SpecDb   - initPool / ensureDatabaseConnection / query, called one     *)
(*              after the other by a request handler                        *)
(*   SpecPool - the same, run by concurrent requests against the one        *)
(*              process-wide pool variable                                  *)
(*   SpecAppt - createAppointment against the customers / services /        *)
(*              appointments tables, with concurrent deletes                *)
(*   Spec     - createProductSale, statement by statement, each statement   *)
(*              a separate query() call served by some pooled connection    *)
(*   SpecSchema  - initDatabase, resetDatabase, seedInitialData             *)
(*   SpecMigrate - migrateDatabase from every earlier schema                *)
(*   SpecCrud    - create / get-by-id / update / delete of customers,       *)
(*                 services, appointments and products, on either backend   *)
(*   SpecStats   - getDashboardStats                                        *)
(*   SpecHttp    - GET /api/db-check, /api/db-init, /api/db-reset           *)
(*   SpecPay     - processAppointmentPayment                                *)
(*   SpecRetry   - query() sending the relative UPDATEs of                  *)
(*                 createProductSale, with answers that can be lost         *)
(*   SpecSeed    - seedInitialData run by two concurrent requests           *)
(***************************************************************************)
EXTENDS Integers, Sequences, FiniteSets, TLC

VARIABLES
    \* ---- lib/db.ts ----------------------------------------------------
    env,            \* execution environment, fixed during a behaviour
    pool,           \* the module-level `pool` variable (db.ts:13)
    poolsMade,      \* number of pool objects constructed so far
    verifiedPools,  \* ids of real pools whose SELECT NOW() succeeded
    dpc,            \* per request: position inside ensure/query/initPool
    dop,            \* per request: the exported function being run
    dcalls,         \* per request: calls started so far
    currentRetry,   \* db.ts:180
    lastError,      \* db.ts:181
    attempts,       \* per request: pool.query attempts of the current call
    delays,         \* per request: setTimeout delays of the current call
    allTransient,   \* per request: every failed attempt so far was transient
    dlast,          \* per request: outcome of the latest completed call
    dprev,          \* per request: outcome of the call before that
    \* ---- tables used by createAppointment -----------------------------
    customers,      \* ids of the rows of table customers
    services,       \* ids of the rows of table services
    custVisits,     \* customers.visits
    custLastVisit,  \* customers.last_visit
    appointments,   \* rows of table appointments
    apc,            \* per request: position inside createAppointment
    aloc,           \* per request: arguments and locals of createAppointment
    ares,           \* per request: what the latest createAppointment returned
    acalls,         \* createAppointment calls started so far
    deletes,        \* deleteCustomer / deleteService calls so far
    \* ---- createProductSale --------------------------------------------
    stock0,         \* products.stock before any sale statement
    committed,      \* writes visible to every connection
    pending,        \* per connection: writes inside its open transaction
    tx,             \* per connection: "none" | "open" | "aborted"
    spc,            \* per request: position inside createProductSale
    sloc,           \* per request: arguments and locals of createProductSale
    sres,           \* per request: what the latest createProductSale returned
    scalls,         \* createProductSale calls started so far
    faults,         \* statements that failed so far
    \* ---- schema maintenance (initDatabase, resetDatabase, ...) ---------
    schema,         \* tables, later-added columns and functions that exist
    rows,           \* per table: number of rows
    adm,            \* position and locals of the maintenance call running
    alast,          \* the latest completed maintenance call
    aprev,          \* the maintenance call completed before that
    afaults,        \* maintenance statements that failed for outside reasons
    admCalls,       \* maintenance calls started so far
    \* ---- create / get / update / delete actions ------------------------
    backend,        \* "real": the SQL database, "mock": the mock pool
    crud,           \* per entity: the rows of its table (or of mockData)
    nextId,         \* per entity: the next value of the SERIAL id
    clast,          \* the latest completed action call
    cprev,          \* the action call completed before that
    ccalls,         \* action calls so far
    cfaults,        \* action statements that failed for outside reasons
    \* ---- getDashboardStats ---------------------------------------------
    stTable,        \* what the appointments and customers tables hold
    stat,           \* the call's position, locals and result
    stFaults,       \* queries of the call that failed
    \* ---- administrative endpoints --------------------------------------
    hreq,           \* the request a handler is serving: route and position
    hres,           \* the responses sent so far
    \* ---- processAppointmentPayment -------------------------------------
    payAppts,       \* rows of table appointments
    paySales,       \* rows of table sales
    payItems,       \* rows of table sale_items
    pay,            \* the call's position, locals and result
    payFaults,      \* queries of the call that failed for outside reasons
    \* ---- query() sending a relative UPDATE -----------------------------
    rqRow,          \* the stock and the visits the statements change
    rq,             \* the call's position and locals
    rqCalls,        \* calls made so far
    \* ---- concurrent seedInitialData runs ------------------------------
    seedTables,     \* number of rows of each seeded table
    seedRun,        \* position and locals of each run
    seedFaults      \* queries of the runs that failed for outside reasons

dbVars   == <<env, pool, poolsMade, verifiedPools, dpc, dop, dcalls, currentRetry,
              lastError, attempts, delays, allTransient, dlast, dprev>>
apptVars == <<customers, services, custVisits, custLastVisit, appointments,
              apc, aloc, ares, acalls, deletes>>
saleVars == <<stock0, committed, pending, tx, spc, sloc, sres, scalls, faults>>
admVars  == <<schema, rows, adm, alast, aprev, afaults, admCalls>>
crudVars == <<backend, crud, nextId, clast, cprev, ccalls, cfaults>>
statVars == <<stTable, stat, stFaults>>
httpVars == <<hreq, hres>>
payVars == <<payAppts, paySales, payItems, pay, payFaults>>
retryVars == <<rqRow, rq, rqCalls>>
seedVars == <<seedTables, seedRun, seedFaults>>
laterVars == <<statVars, httpVars, payVars, retryVars, seedVars>>
moreVars == <<admVars, crudVars, laterVars>>
vars     == <<dbVars, apptVars, saleVars, moreVars>>

-----------------------------------------------------------------------------
(***************************************************************************)
(* Bounds of the model.                                                     *)
(***************************************************************************)
MaxDbCalls == 3     \* successive calls of the sequential request handler

DbProcs == {1, 2}   \* concurrent request handlers touching the pool

MaxApptCalls == 2   \* createAppointment calls in a behaviour
MaxDeletes == 1     \* deleteCustomer / deleteService calls in a behaviour
MaxFaults == 1      \* query() calls that throw without reaching a connection
MaxAdmCalls == 2    \* successive schema maintenance calls in a behaviour
MaxCrudCalls == 2   \* successive create / get / update / delete calls
MaxPerStatus == 2   \* appointments of one date and one status
MaxRequests == 2    \* requests to the administrative endpoints
MaxPayCalls == 2    \* successive processAppointmentPayment calls
MaxRetryCalls == 2  \* successive query() calls sending an UPDATE

CustIds == {1, 2}    \* customer ids that occur
SvcIds  == {1, 2}    \* service ids that occur
ProdIds == {1, 2}    \* product ids that occur
Conns   == {1, 2}    \* connections the pool has open (its max is 10, db.ts:51)
ApptProcs == {1}     \* the request handler calling createAppointment
SaleProcs == {1, 2}  \* concurrent createProductSale requests
SeedProcs == {1, 2}  \* concurrent requests running seedInitialData

-----------------------------------------------------------------------------
(***************************************************************************)
(* lib/db.ts                                                                *)
(***************************************************************************)

\* db.ts:179
maxRetries == 3

NoPool   == [kind |-> "null", id |-> 0]
MockPool(n) == [kind |-> "mock", id |-> n]
RealPool(n) == [kind |-> "real", id |-> n]

\* Error messages, as sequences of words; matching is case sensitive as
\* String.prototype.includes is.
Messages ==
    { <<"Connection", "terminated", "unexpectedly">>,
      <<"Query", "read", "timeout">>,
      <<"remaining", "connection", "slots", "are", "reserved">>,
      <<"Connection", "refused">>,
      <<"syntax", "error">>,
      <<>> }

\* String.prototype.includes on word sequences
includes(msg, needle) ==
    \E i \in 1..(Len(msg) - Len(needle) + 1) :
        SubSeq(msg, i, i + Len(needle) - 1) = needle

isRetriableError_always(msg) == TRUE

\* db.ts:194-198; an empty message is falsy
isRetriableError(msg) ==
    /\ msg # <<>>
    /\ \/ includes(msg, <<"Connection", "terminated">>)
       \/ includes(msg, <<"timeout">>)
       \/ includes(msg, <<"connection">>)

canRetry_offByOne(cr) == cr < maxRetries

\* db.ts:200, second conjunct
canRetry(cr) == cr < maxRetries - 1

RECURSIVE Pow2(_)
Pow2(n) == IF n <= 0 THEN 1 ELSE 2 * Pow2(n - 1)

\* db.ts:205
backoffDelay(cr) == 1000 * Pow2(cr - 1)

NoError == [msg |-> <<>>, attempt |-> 0]
NoCall  == [op |-> "none", ret |-> "none", pool |-> NoPool, thrown |-> NoError]
NoPrev  == [op |-> "none", ret |-> "none", pool |-> NoPool]
Summary(r) == [op |-> r.op, ret |-> r.ret, pool |-> r.pool]

\* The environments a process can run in: a browser has neither the driver
\* nor the variable; the constructor can only throw where it is reached.
Envs ==
    { e \in [browser : BOOLEAN, pg : BOOLEAN, url : BOOLEAN,
             reachable : BOOLEAN, ctorThrows : BOOLEAN] :
        /\ e.browser => (~e.pg /\ ~e.url /\ ~e.reachable)
        /\ e.ctorThrows => (~e.browser /\ e.pg /\ e.url) }

\* A transient message: one holding "Connection terminated", "timeout" or
\* "connection"; written out independently of isRetriableError.
Transient(msg) ==
    \E i \in 1..Len(msg) :
        \/ msg[i] = "timeout"
        \/ msg[i] = "connection"
        \/ (msg[i] = "Connection" /\ i < Len(msg) /\ msg[i + 1] = "terminated")

InitDb ==
    /\ env \in Envs
    /\ pool = NoPool
    /\ poolsMade = 0
    /\ verifiedPools = {}
    /\ dpc = [p \in DbProcs |-> "idle"]
    /\ dop = [p \in DbProcs |-> "none"]
    /\ dcalls = [p \in DbProcs |-> 0]
    /\ currentRetry = [p \in DbProcs |-> 0]
    /\ lastError = [p \in DbProcs |-> NoError]
    /\ attempts = [p \in DbProcs |-> 0]
    /\ delays = [p \in DbProcs |-> <<>>]
    /\ allTransient = [p \in DbProcs |-> TRUE]
    /\ dlast = [p \in DbProcs |-> NoCall]
    /\ dprev = [p \in DbProcs |-> NoPrev]

\* A call of request p ends: ret is what it returned, or "throw".
Finish(p, ret, err, newPool) ==
    /\ dpc' = [dpc EXCEPT ![p] = "idle"]
    /\ dprev' = [dprev EXCEPT ![p] = Summary(dlast[p])]
    /\ dlast' = [dlast EXCEPT ![p] =
                    [op |-> dop[p], ret |-> ret, pool |-> newPool, thrown |-> err]]

\* db.ts:179-183: the retry loop is entered
EnterLoop(p) ==
    /\ dpc' = [dpc EXCEPT ![p] = "attempt"]
    /\ UNCHANGED <<dlast, dprev>>

PoolNotInitialized == [msg |-> <<"Pool", "not", "initialized">>, attempt |-> 0]

\* What the caller of initPool does with its result:
\* ensureDatabaseConnection returns it (db.ts:82-83), query throws when it is
\* false (db.ts:172-176) and otherwise enters its loop.
AfterInitPool(p, initialized, newPool) ==
    IF dop[p] = "ensure"
    THEN Finish(p, IF initialized THEN "true" ELSE "false", NoError, newPool)
    ELSE IF initialized
         THEN EnterLoop(p)
         ELSE Finish(p, "throw", PoolNotInitialized, newPool)

loopVars == <<currentRetry, lastError, attempts, delays, allTransient>>

\* A request calls ensureDatabaseConnection() or query(); both test `pool`
\* and call initPool when it is null (db.ts:81, db.ts:171).  initPool runs
\* without yielding up to its first await: the browser branch (db.ts:18-23)
\* completes at once, the server branch stops at `await import("pg")`.
Call(p, op) ==
    /\ dpc[p] = "idle"
    /\ dcalls' = [dcalls EXCEPT ![p] = @ + 1]
    /\ dop' = [dop EXCEPT ![p] = op]
    /\ currentRetry' = [currentRetry EXCEPT ![p] = 0]
    /\ lastError' = [lastError EXCEPT ![p] = NoError]
    /\ attempts' = [attempts EXCEPT ![p] = 0]
    /\ delays' = [delays EXCEPT ![p] = <<>>]
    /\ allTransient' = [allTransient EXCEPT ![p] = TRUE]
    /\ IF pool # NoPool
       THEN /\ UNCHANGED <<pool, poolsMade>>
            /\ IF op = "ensure"
               THEN /\ dpc' = [dpc EXCEPT ![p] = "idle"]
                    /\ dprev' = [dprev EXCEPT ![p] = Summary(dlast[p])]
                    /\ dlast' = [dlast EXCEPT ![p] =
                          [op |-> op, ret |-> "true", pool |-> pool, thrown |-> NoError]]
               ELSE /\ dpc' = [dpc EXCEPT ![p] = "attempt"]
                    /\ UNCHANGED <<dlast, dprev>>
       ELSE IF env.browser
            THEN /\ pool' = MockPool(poolsMade + 1)
                 /\ poolsMade' = poolsMade + 1
                 /\ IF op = "ensure"
                    THEN /\ dpc' = [dpc EXCEPT ![p] = "idle"]
                         /\ dprev' = [dprev EXCEPT ![p] = Summary(dlast[p])]
                         /\ dlast' = [dlast EXCEPT ![p] =
                               [op |-> op, ret |-> "true", pool |-> pool',
                                thrown |-> NoError]]
                    ELSE /\ dpc' = [dpc EXCEPT ![p] = "attempt"]
                         /\ UNCHANGED <<dlast, dprev>>
            ELSE /\ dpc' = [dpc EXCEPT ![p] = "import"]
                 /\ UNCHANGED <<pool, poolsMade, dlast, dprev>>
    /\ UNCHANGED <<env, verifiedPools, apptVars, saleVars, moreVars>>

ensureDatabaseConnection(p) == Call(p, "ensure")

query(p) == Call(p, "query")

\* db.ts:32-54 with the mock fallback for a missing credential
initPoolImported_mockOnNoUrl(p) ==
    /\ dpc[p] = "import"
    /\ IF ~env.pg \/ ~env.url \/ env.ctorThrows
       THEN /\ pool' = MockPool(poolsMade + 1)
            /\ poolsMade' = poolsMade + 1
            /\ AfterInitPool(p, TRUE, pool')
       ELSE /\ pool' = RealPool(poolsMade + 1)
            /\ poolsMade' = poolsMade + 1
            /\ dpc' = [dpc EXCEPT ![p] = "verify"]
            /\ UNCHANGED <<dlast, dprev>>
    /\ UNCHANGED <<env, verifiedPools, dop, dcalls, loopVars, apptVars, saleVars, moreVars>>

\* db.ts:27-63 and 70-75: the dynamic import has settled.  No driver: mock
\* pool, true.  No DATABASE_URL: false, pool untouched.  The constructor
\* throws: the outer catch installs the mock pool, true.  Otherwise the real
\* pool is assigned and initPool awaits SELECT NOW().
initPoolImported(p) ==
    /\ dpc[p] = "import"
    /\ IF ~env.pg
       THEN /\ pool' = MockPool(poolsMade + 1)
            /\ poolsMade' = poolsMade + 1
            /\ AfterInitPool(p, TRUE, pool')
       ELSE IF ~env.url
       THEN /\ UNCHANGED <<pool, poolsMade>>
            /\ AfterInitPool(p, FALSE, pool)
       ELSE IF env.ctorThrows
       THEN /\ pool' = MockPool(poolsMade + 1)
            /\ poolsMade' = poolsMade + 1
            /\ AfterInitPool(p, TRUE, pool')
       ELSE /\ pool' = RealPool(poolsMade + 1)
            /\ poolsMade' = poolsMade + 1
            /\ dpc' = [dpc EXCEPT ![p] = "verify"]
            /\ UNCHANGED <<dlast, dprev>>
    /\ UNCHANGED <<env, verifiedPools, dop, dcalls, loopVars, apptVars, saleVars, moreVars>>

\* db.ts:62-69: SELECT NOW() on the pool this call built has settled
initPoolVerified(p) ==
    /\ dpc[p] = "verify"
    /\ verifiedPools' = IF env.reachable /\ pool.kind = "real"
                        THEN verifiedPools \cup {pool.id} ELSE verifiedPools
    /\ AfterInitPool(p, env.reachable, pool)
    /\ UNCHANGED <<env, pool, poolsMade, dop, dcalls, loopVars, apptVars, saleVars, moreVars>>

\* db.ts:183-213: one pass of the loop body.  The mock pool answers every
\* statement (db.ts:121-162); a real pool answers or rejects.
queryAttempt(p) ==
    /\ dpc[p] = "attempt"
    /\ attempts' = [attempts EXCEPT ![p] = @ + 1]
    /\ \/ /\ pool.kind = "mock" \/ env.reachable
          /\ Finish(p, "rows", NoError, pool)
          /\ UNCHANGED <<currentRetry, lastError, delays, allTransient>>
       \/ /\ pool.kind = "real"
          /\ \E msg \in Messages :
                LET error == [msg |-> msg, attempt |-> attempts[p] + 1] IN
                /\ lastError' = [lastError EXCEPT ![p] = error]
                /\ allTransient' = [allTransient EXCEPT ![p] = @ /\ Transient(msg)]
                /\ IF isRetriableError(msg) /\ canRetry(currentRetry[p])
                   THEN /\ currentRetry' = [currentRetry EXCEPT ![p] = @ + 1]
                        /\ delays' = [delays EXCEPT ![p] =
                                         Append(@, backoffDelay(currentRetry[p] + 1))]
                        /\ dpc' = [dpc EXCEPT ![p] = "backoff"]
                        /\ UNCHANGED <<dlast, dprev>>
                   ELSE /\ Finish(p, "throw", error, pool)
                        /\ UNCHANGED <<currentRetry, delays>>
    /\ UNCHANGED <<env, pool, poolsMade, verifiedPools, dop, dcalls, apptVars, saleVars, moreVars>>

\* db.ts:206-207 and 183, 217: the delay has elapsed; `continue` re-tests
\* the loop condition, and the statement after the loop throws lastError.
queryBackoffDone(p) ==
    /\ dpc[p] = "backoff"
    /\ IF currentRetry[p] < maxRetries
       THEN EnterLoop(p)
       ELSE Finish(p, "throw", lastError[p], pool)
    /\ UNCHANGED <<env, pool, poolsMade, verifiedPools, dop, dcalls, loopVars,
                   apptVars, saleVars, moreVars>>

-----------------------------------------------------------------------------
(***************************************************************************)
(* lib/db-check/route.ts: createAppointment, deleteCustomer, deleteService         *)
(***************************************************************************)

Dates == {1, 2}

customerNameOf(c) == <<"customer", c>>
serviceNameOf(s) == <<"service", s>>
UnknownCustomer == <<"Unknown Customer">>
UnknownService == <<"Unknown Service">>

NoAppt == [customer_id |-> 0, service_id |-> 0, date |-> 0,
           custFound |-> FALSE, svcFound |-> FALSE,
           actualCustomerId |-> 0, actualServiceId |-> 0,
           customerName |-> UnknownCustomer, serviceName |-> UnknownService,
           firstCustomer |-> 0, firstService |-> 0]
NoApptResult == [status |-> "none", id |-> 0, customer_id |-> 0,
                 customer_name |-> UnknownCustomer, service_name |-> UnknownService]

InitAppt ==
    /\ customers \in SUBSET CustIds
    /\ services \in SUBSET SvcIds
    /\ custVisits = [c \in CustIds |-> 0]
    /\ custLastVisit = [c \in CustIds |-> 0]
    /\ appointments = {}
    /\ apc = [p \in ApptProcs |-> "idle"]
    /\ aloc = [p \in ApptProcs |-> NoAppt]
    /\ ares = [p \in ApptProcs |-> NoApptResult]
    /\ acalls = 0
    /\ deletes = 0

foreignKeysHold_unchecked(cid, sid) == TRUE

\* db.ts:269-270: appointments.customer_id REFERENCES customers(id),
\* appointments.service_id REFERENCES services(id)
foreignKeysHold(cid, sid) == cid \in customers /\ sid \in services

\* db-check/route.ts:456-476: where the call goes after both lookups; the else
\* branches (names of the rows found) run without an await.
AfterLookups(l) ==
    IF ~l.custFound THEN "firstCustomer"
    ELSE IF ~l.svcFound THEN "firstService"
    ELSE "insert"

\* db-check/route.ts:442-447: the call and its first statement,
\* SELECT id, name FROM customers WHERE id = $1
createAppointment(p, cid, sid, date) ==
    /\ apc[p] = "idle"
    /\ acalls' = acalls + 1
    /\ aloc' = [aloc EXCEPT ![p] =
                  [NoAppt EXCEPT !.customer_id = cid, !.service_id = sid, !.date = date,
                                 !.custFound = cid \in customers,
                                 !.actualCustomerId = cid, !.actualServiceId = sid]]
    /\ ares' = [ares EXCEPT ![p] = NoApptResult]
    /\ apc' = [apc EXCEPT ![p] = "selectService"]
    /\ UNCHANGED <<customers, services, custVisits, custLastVisit, appointments, deletes>>
    /\ UNCHANGED <<dbVars, saleVars, moreVars>>

\* db-check/route.ts:448-454, 463-465, 474-476:
\* SELECT id, name FROM services WHERE id = $1
apptSelectService(p) ==
    /\ apc[p] = "selectService"
    /\ LET l  == aloc[p]
           l2 == [l EXCEPT !.svcFound = l.service_id \in services,
                           !.customerName = IF l.custFound
                                            THEN customerNameOf(l.customer_id)
                                            ELSE UnknownCustomer,
                           !.serviceName = IF l.service_id \in services
                                           THEN serviceNameOf(l.service_id)
                                           ELSE UnknownService]
       IN /\ aloc' = [aloc EXCEPT ![p] = l2]
          /\ apc' = [apc EXCEPT ![p] = AfterLookups(l2)]
    /\ UNCHANGED <<customers, services, custVisits, custLastVisit, appointments,
                   ares, acalls, deletes>>
    /\ UNCHANGED <<dbVars, saleVars, moreVars>>

\* the fallback with the name left at its default
apptFirstCustomer_keepName(p) ==
    /\ apc[p] = "firstCustomer"
    /\ \/ /\ customers = {}
          /\ aloc' = aloc
       \/ \E c \in customers :
            aloc' = [aloc EXCEPT ![p].actualCustomerId = c,
                                 ![p].firstCustomer = c]
    /\ apc' = [apc EXCEPT ![p] = IF ~aloc[p].svcFound THEN "firstService" ELSE "insert"]
    /\ UNCHANGED <<customers, services, custVisits, custLastVisit, appointments,
                   ares, acalls, deletes>>
    /\ UNCHANGED <<dbVars, saleVars, moreVars>>

\* db-check/route.ts:457-462: SELECT id, name FROM customers LIMIT 1.  Without an
\* ORDER BY the row returned is whichever the scan meets first.
apptFirstCustomer(p) ==
    /\ apc[p] = "firstCustomer"
    /\ \/ /\ customers = {}
          /\ aloc' = aloc
       \/ \E c \in customers :
            aloc' = [aloc EXCEPT ![p].actualCustomerId = c,
                                 ![p].customerName = customerNameOf(c),
                                 ![p].firstCustomer = c]
    /\ apc' = [apc EXCEPT ![p] = IF ~aloc[p].svcFound THEN "firstService" ELSE "insert"]
    /\ UNCHANGED <<customers, services, custVisits, custLastVisit, appointments,
                   ares, acalls, deletes>>
    /\ UNCHANGED <<dbVars, saleVars, moreVars>>

\* db-check/route.ts:468-473: SELECT id, name FROM services LIMIT 1
apptFirstService(p) ==
    /\ apc[p] = "firstService"
    /\ \/ /\ services = {}
          /\ aloc' = aloc
       \/ \E s \in services :
            aloc' = [aloc EXCEPT ![p].actualServiceId = s,
                                 ![p].serviceName = serviceNameOf(s),
                                 ![p].firstService = s]
    /\ apc' = [apc EXCEPT ![p] = "insert"]
    /\ UNCHANGED <<customers, services, custVisits, custLastVisit, appointments,
                   ares, acalls, deletes>>
    /\ UNCHANGED <<dbVars, saleVars, moreVars>>

\* The record createAppointment returns (db-check/route.ts:506-515)
newAppointment(l, id) ==
    [status |-> "ok", id |-> id, customer_id |-> l.actualCustomerId,
     customer_name |-> l.customerName, service_name |-> l.serviceName]

\* db-check/route.ts:479-494 and 516-519: INSERT INTO appointments ... RETURNING *.
\* A foreign-key violation makes query() throw, and the catch block rethrows.
\* When the customer lookup had found no row the visit update is skipped
\* (db-check/route.ts:497) and the call returns.
apptInsert(p) ==
    /\ apc[p] = "insert"
    /\ LET l == aloc[p] IN
       IF foreignKeysHold(l.actualCustomerId, l.actualServiceId)
       THEN /\ appointments' = appointments \cup
                  {[id |-> acalls,
                    customer_id |-> l.actualCustomerId,
                    service_id |-> l.actualServiceId,
                    date |-> l.date,
                    askedCustomer |-> l.customer_id,
                    customerExisted |-> l.actualCustomerId \in customers,
                    serviceExisted |-> l.actualServiceId \in services]}
            /\ IF l.custFound
               THEN /\ apc' = [apc EXCEPT ![p] = "updateVisits"]
                    /\ ares' = [ares EXCEPT ![p].id = acalls]
               ELSE /\ apc' = [apc EXCEPT ![p] = "idle"]
                    /\ ares' = [ares EXCEPT ![p] = newAppointment(l, acalls)]
       ELSE /\ appointments' = appointments
            /\ apc' = [apc EXCEPT ![p] = "idle"]
            /\ ares' = [ares EXCEPT ![p].status = "raised"]
    /\ UNCHANGED <<customers, services, custVisits, custLastVisit, aloc, acalls, deletes>>
    /\ UNCHANGED <<dbVars, saleVars, moreVars>>

\* db-check/route.ts:497-515: UPDATE customers SET last_visit = $1,
\* visits = visits + 1 WHERE id = $2, then the return
apptUpdateVisits(p) ==
    /\ apc[p] = "updateVisits"
    /\ LET l == aloc[p] IN
       /\ IF l.actualCustomerId \in customers
          THEN /\ custVisits' = [custVisits EXCEPT ![l.actualCustomerId] = @ + 1]
               /\ custLastVisit' = [custLastVisit EXCEPT ![l.actualCustomerId] = l.date]
          ELSE UNCHANGED <<custVisits, custLastVisit>>
       /\ ares' = [ares EXCEPT ![p] = newAppointment(l, ares[p].id)]
    /\ apc' = [apc EXCEPT ![p] = "idle"]
    /\ UNCHANGED <<customers, services, appointments, aloc, acalls, deletes>>
    /\ UNCHANGED <<dbVars, saleVars, moreVars>>

\* db-check/route.ts:182-207: deleteCustomer of an existing row; its appointments
\* go with it (ON DELETE CASCADE, db.ts:269)
deleteCustomer(c) ==
    /\ c \in customers
    /\ customers' = customers \ {c}
    /\ appointments' = {a \in appointments : a.customer_id # c}
    /\ deletes' = deletes + 1
    /\ UNCHANGED <<services, custVisits, custLastVisit, apc, aloc, ares, acalls>>
    /\ UNCHANGED <<dbVars, saleVars, moreVars>>

\* db-check/route.ts:305-330: deleteService of an existing row (ON DELETE CASCADE,
\* db.ts:270)
deleteService(s) ==
    /\ s \in services
    /\ services' = services \ {s}
    /\ appointments' = {a \in appointments : a.service_id # s}
    /\ deletes' = deletes + 1
    /\ UNCHANGED <<customers, custVisits, custLastVisit, apc, aloc, ares, acalls>>
    /\ UNCHANGED <<dbVars, saleVars, moreVars>>

NextAppt ==
    \/ \E p \in ApptProcs, cid \in CustIds, sid \in SvcIds, date \in Dates :
          acalls < MaxApptCalls /\ createAppointment(p, cid, sid, date)
    \/ \E p \in ApptProcs :
          \/ apptSelectService(p)
          \/ apptFirstCustomer(p)
          \/ apptFirstService(p)
          \/ apptInsert(p)
          \/ apptUpdateVisits(p)
    \/ \E c \in CustIds : deletes < MaxDeletes /\ deleteCustomer(c)
    \/ \E s \in SvcIds : deletes < MaxDeletes /\ deleteService(s)

-----------------------------------------------------------------------------
(***************************************************************************)
(* db-check/route.ts: createProductSale.  Every statement is one query()    *)
(* call, and pool.query (db.ts:186) hands it to whichever pooled connection *)
(* is free; a connection keeps its transaction state between statements.    *)
(***************************************************************************)

\* products.price of the two product rows
productPrice == <<10, 25>>

\* The items a call may ask for; product 3 has no row.
Item(productId, quantity) == [productId |-> productId, quantity |-> quantity]

\* The calls made: customer 1 is registered, customer 2 is not; products 1
\* and 2 have rows, product 3 has none.
Requests ==
    {[customerId |-> 1, items |-> l] :
        l \in {<<Item(1, 1)>>, <<Item(1, 2)>>, <<Item(3, 1)>>,
               <<Item(1, 1), Item(2, 1)>>}}
    \cup {[customerId |-> 2, items |-> <<Item(1, 1)>>]}

\* products.stock of a row before the first call
Stocks == {1}

\* A write, as it sits in a table or in a transaction's uncommitted changes:
\*   sale  - a row of sales       (ref = customer_id, amount = total)
\*   item  - a row of sale_items  (ref = item_id, amount = price, qty = quantity)
\*   stock - stock = stock - qty on products row ref
\*   visit - visits = visits + 1 on customers row ref
Write(kind, call, idx, ref, amount, qty) ==
    [kind |-> kind, call |-> call, idx |-> idx, ref |-> ref, amount |-> amount, qty |-> qty]

RECURSIVE SumQty(_)
SumQty(W) ==
    IF W = {} THEN 0
    ELSE LET w == CHOOSE x \in W : TRUE IN w.qty + SumQty(W \ {w})

\* What connection c sees: committed data and its own open transaction
Visible(c) == committed \cup (IF tx[c] = "open" THEN pending[c] ELSE {})

\* products.stock of row i among the writes W
Stock(W, i) == stock0[i] - SumQty({w \in W : w.kind = "stock" /\ w.ref = i})

\* customers.visits of row c among the writes W
Visits(W, c) == custVisits[c] + SumQty({w \in W : w.kind = "visit" /\ w.ref = c})

NoSale == [call |-> 0, customerId |-> 0, items |-> <<>>, idx |-> 0, total |-> 0,
           validatedItems |-> <<>>, stockAtCall |-> [i \in ProdIds |-> 0],
           failedAfterSale |-> FALSE]

InitSale ==
    /\ stock0 \in [ProdIds -> Stocks]
    /\ committed = {}
    /\ pending = [c \in Conns |-> {}]
    /\ tx = [c \in Conns |-> "none"]
    /\ spc = [p \in SaleProcs |-> "idle"]
    /\ sloc = [p \in SaleProcs |-> NoSale]
    /\ sres = [p \in SaleProcs |-> "none"]
    /\ scalls = 0
    /\ faults = 0

\* ---- what a statement does on the connection that serves it ------------

\* BEGIN: opens a transaction; inside one it only warns
Begin(c) ==
    /\ tx' = [tx EXCEPT ![c] = "open"]
    /\ UNCHANGED <<committed, pending>>

\* COMMIT: publishes the connection's changes; with no transaction it only
\* warns, and it ends an aborted transaction by rolling it back
Commit(c) ==
    /\ committed' = IF tx[c] = "open" THEN committed \cup pending[c] ELSE committed
    /\ pending' = [pending EXCEPT ![c] = {}]
    /\ tx' = [tx EXCEPT ![c] = "none"]

\* ROLLBACK: drops the connection's changes; with no transaction it only warns
Rollback(c) ==
    /\ pending' = [pending EXCEPT ![c] = {}]
    /\ tx' = [tx EXCEPT ![c] = "none"]
    /\ UNCHANGED committed

\* INSERT / UPDATE: inside the connection's transaction the change stays
\* uncommitted, outside it is committed at once
Apply(c, w) ==
    /\ IF tx[c] = "open"
       THEN /\ pending' = [pending EXCEPT ![c] = @ \cup {w}]
            /\ UNCHANGED committed
       ELSE /\ committed' = committed \cup {w}
            /\ UNCHANGED pending
    /\ UNCHANGED tx

\* A statement the server rejects aborts the transaction it ran in
Reject(c) ==
    /\ tx' = [tx EXCEPT ![c] = IF @ = "open" THEN "aborted" ELSE @]
    /\ UNCHANGED <<committed, pending>>

\* A SELECT; nothing changes
Read(c) == UNCHANGED <<committed, pending, tx>>

\* An aborted transaction rejects every statement but COMMIT and ROLLBACK
Accepts(c) == tx[c] # "aborted"

\* The row is locked by an uncommitted UPDATE of another connection
Locked(c, kind, ref) ==
    \E d \in Conns \ {c} : \E w \in pending[d] : w.kind = kind /\ w.ref = ref

\* query() throws without a statement reaching a connection (for instance
\* the pool's connectionTimeoutMillis, db.ts:53, or retries used up)
Fails ==
    /\ faults < MaxFaults
    /\ faults' = faults + 1
    /\ UNCHANGED <<committed, pending, tx>>

\* ---- the steps of createProductSale --------------------------------------

saleFrame == UNCHANGED <<stock0, scalls, dbVars, apptVars, moreVars>>

Goto(p, pc) == spc' = [spc EXCEPT ![p] = pc]

\* An exception reaches the outer catch (route.ts:1203)
Caught(p) ==
    /\ spc' = [spc EXCEPT ![p] = "catch"]
    /\ UNCHANGED <<sloc, sres>>

CaughtAfterSale(p) ==
    /\ spc' = [spc EXCEPT ![p] = "catch"]
    /\ sloc' = [sloc EXCEPT ![p].failedAfterSale = TRUE]
    /\ UNCHANGED sres

Return(p, r) ==
    /\ spc' = [spc EXCEPT ![p] = "idle"]
    /\ sres' = [sres EXCEPT ![p] = r]

\* route.ts:1023-1033: the call, up to and including query('BEGIN')
createProductSale(p, customerId, items) ==
    /\ spc[p] = "idle"
    /\ sloc[p].call = 0
    /\ scalls' = scalls + 1
    /\ sres' = [sres EXCEPT ![p] = "none"]
    /\ LET l == [NoSale EXCEPT !.call = p, !.customerId = customerId,
                               !.items = items,
                               !.stockAtCall = [i \in ProdIds |-> Stock(committed, i)]]
       IN \/ \E c \in Conns :
               /\ IF Accepts(c) THEN Begin(c) ELSE Reject(c)
               /\ IF Accepts(c)
                  THEN /\ spc' = [spc EXCEPT ![p] = "selectCustomer"]
                       /\ sloc' = [sloc EXCEPT ![p] = l]
                  ELSE /\ spc' = [spc EXCEPT ![p] = "catch"]
                       /\ sloc' = [sloc EXCEPT ![p] = l]
               /\ UNCHANGED faults
          \/ /\ Fails
             /\ spc' = [spc EXCEPT ![p] = "catch"]
             /\ sloc' = [sloc EXCEPT ![p] = l]
    /\ UNCHANGED <<stock0, dbVars, apptVars, moreVars>>

\* route.ts:1036-1044: SELECT * FROM customers WHERE id = $1
saleSelectCustomer(p) ==
    /\ spc[p] = "selectCustomer"
    /\ \/ \E c \in Conns :
            /\ IF Accepts(c) THEN Read(c) ELSE Reject(c)
            /\ IF ~Accepts(c) THEN Caught(p)
               ELSE /\ Goto(p, IF sloc[p].customerId \in customers
                               THEN "selectProduct" ELSE "rollbackReturn")
                    /\ sloc' = [sloc EXCEPT ![p].idx = 1]
                    /\ UNCHANGED sres
            /\ UNCHANGED faults
       \/ (Fails /\ Caught(p))
    /\ saleFrame

insufficientStock_offByOne(stock, quantity) == stock + 1 < quantity

\* route.ts:1064: parseInt(product.stock) < item.quantity
insufficientStock(stock, quantity) == stock < quantity

\* route.ts:1050-1082: one pass of the validation loop,
\* SELECT * FROM products WHERE id = $1
saleSelectProduct(p) ==
    /\ spc[p] = "selectProduct"
    /\ LET l == sloc[p]
           item == l.items[l.idx]
       IN \/ \E c \in Conns :
               /\ IF Accepts(c) THEN Read(c) ELSE Reject(c)
               /\ IF ~Accepts(c) THEN Caught(p)
                  ELSE IF item.productId \notin ProdIds
                  THEN Goto(p, "rollbackReturn") /\ UNCHANGED <<sloc, sres>>
                  ELSE IF insufficientStock(Stock(Visible(c), item.productId), item.quantity)
                  THEN Goto(p, "rollbackReturn") /\ UNCHANGED <<sloc, sres>>
                  ELSE /\ sloc' = [sloc EXCEPT
                              ![p].validatedItems =
                                  Append(@, [productId |-> item.productId,
                                             price |-> productPrice[item.productId],
                                             quantity |-> item.quantity]),
                              ![p].total = @ + productPrice[item.productId] * item.quantity,
                              ![p].idx = @ + 1]
                       /\ Goto(p, IF l.idx = Len(l.items) THEN "insertSale"
                                  ELSE "selectProduct")
                       /\ UNCHANGED sres
               /\ UNCHANGED faults
          \/ (Fails /\ Caught(p))
    /\ saleFrame

\* route.ts:1038-1042, 1054-1058, 1065-1069: query('ROLLBACK') and the
\* return of {success: false} after a failed validation
saleRollbackReturn(p) ==
    /\ spc[p] = "rollbackReturn"
    /\ \/ \E c \in Conns :
            /\ Rollback(c)
            /\ Return(p, "false")
            /\ UNCHANGED <<sloc, faults>>
       \/ (Fails /\ Caught(p))
    /\ saleFrame

\* route.ts:1084-1098: INSERT INTO sales ... RETURNING *
saleInsertSale(p) ==
    /\ spc[p] = "insertSale"
    /\ LET l == sloc[p] IN
       \/ \E c \in Conns :
            /\ IF Accepts(c)
               THEN /\ Apply(c, Write("sale", l.call, 0, l.customerId, l.total, 0))
                    /\ Goto(p, "insertItem")
                    /\ sloc' = [sloc EXCEPT ![p].idx = 1]
                    /\ UNCHANGED sres
               ELSE Reject(c) /\ Caught(p)
            /\ UNCHANGED faults
       \/ (Fails /\ Caught(p))
    /\ saleFrame

\* db.ts:315: sale_items.sale_id REFERENCES sales(id); the constraint sees the
\* committed rows and those of the connection's own transaction
saleRowVisible(c, call) ==
    \E w \in Visible(c) : w.kind = "sale" /\ w.call = call

\* route.ts:1100-1124 and 1156-1163: INSERT INTO sale_items ... ; any error
\* other than a missing column leads to query('ROLLBACK') and
\* {success: false}
saleInsertItem(p) ==
    /\ spc[p] = "insertItem"
    /\ LET l == sloc[p]
           item == l.validatedItems[l.idx]
       IN \/ \E c \in Conns :
               /\ IF Accepts(c) /\ saleRowVisible(c, l.call)
                  THEN /\ Apply(c, Write("item", l.call, l.idx, item.productId,
                                         item.price, item.quantity))
                       /\ Goto(p, "updateStock")
                       /\ UNCHANGED sloc
                  ELSE /\ Reject(c)
                       /\ Goto(p, "rollbackReturn")
                       /\ sloc' = [sloc EXCEPT ![p].failedAfterSale = TRUE]
               /\ UNCHANGED <<sres, faults>>
          \/ /\ Fails
             /\ Goto(p, "rollbackReturn")
             /\ sloc' = [sloc EXCEPT ![p].failedAfterSale = TRUE]
             /\ UNCHANGED sres
    /\ saleFrame

\* route.ts:1166-1171: UPDATE products SET stock = stock - $1 WHERE id = $2
saleUpdateStock(p) ==
    /\ spc[p] = "updateStock"
    /\ LET l == sloc[p]
           item == l.validatedItems[l.idx]
       IN \/ \E c \in Conns :
               /\ IF Accepts(c)
                  THEN /\ ~Locked(c, "stock", item.productId)
                       /\ Apply(c, Write("stock", l.call, l.idx, item.productId,
                                         0, item.quantity))
                       /\ Goto(p, IF l.idx = Len(l.validatedItems)
                                  THEN "updateVisits" ELSE "insertItem")
                       /\ sloc' = [sloc EXCEPT ![p].idx = @ + 1]
                       /\ UNCHANGED sres
                  ELSE Reject(c) /\ CaughtAfterSale(p)
               /\ UNCHANGED faults
          \/ (Fails /\ CaughtAfterSale(p))
    /\ saleFrame

\* route.ts:1173-1177: UPDATE customers SET last_visit = $1,
\* visits = visits + 1 WHERE id = $2
saleUpdateVisits(p) ==
    /\ spc[p] = "updateVisits"
    /\ LET l == sloc[p] IN
       \/ \E c \in Conns :
            /\ IF Accepts(c)
               THEN /\ ~Locked(c, "visit", l.customerId)
                    /\ Apply(c, Write("visit", l.call, 0, l.customerId, 0, 1))
                    /\ Goto(p, "commit")
                    /\ UNCHANGED <<sloc, sres>>
               ELSE Reject(c) /\ CaughtAfterSale(p)
            /\ UNCHANGED faults
       \/ (Fails /\ CaughtAfterSale(p))
    /\ saleFrame

\* route.ts:1179-1202: query('COMMIT') and the return of {success: true}
saleCommit(p) ==
    /\ spc[p] = "commit"
    /\ \/ \E c \in Conns :
            /\ Commit(c)
            /\ Return(p, "true")
            /\ UNCHANGED <<sloc, faults>>
       \/ (Fails /\ CaughtAfterSale(p))
    /\ saleFrame

\* route.ts:1203-1212: the catch block: query('ROLLBACK'), then
\* {success: false}; when that ROLLBACK throws, the exception leaves the call
saleCatch(p) ==
    /\ spc[p] = "catch"
    /\ \/ \E c \in Conns :
            /\ Rollback(c)
            /\ Return(p, "false")
            /\ UNCHANGED <<sloc, faults>>
       \/ /\ Fails
          /\ Return(p, "raised")
          /\ UNCHANGED sloc
    /\ saleFrame

NextSale ==
    \/ \E p \in SaleProcs, r \in Requests :
          createProductSale(p, r.customerId, r.items)
    \/ \E p \in SaleProcs :
          \/ saleSelectCustomer(p)
          \/ saleSelectProduct(p)
          \/ saleRollbackReturn(p)
          \/ saleInsertSale(p)
          \/ saleInsertItem(p)
          \/ saleUpdateStock(p)
          \/ saleUpdateVisits(p)
          \/ saleCommit(p)
          \/ saleCatch(p)

-----------------------------------------------------------------------------
(***************************************************************************)
(* lib/db.ts: initDatabase, resetDatabase, migrateDatabase and              *)
(* seedInitialData, statement by statement, run one after the other by the  *)
(* start-up code and the administrative routes.                             *)
(***************************************************************************)

TableNames == {"customers", "services", "appointments", "products", "sales", "sale_items"}

\* The REFERENCES clauses of the CREATE TABLE statements
\* (db.ts:269-270, 300-301, 315)
References(t) ==
    CASE t = "appointments" -> {"customers", "services"}
      [] t = "sales"        -> {"appointments", "customers"}
      [] t = "sale_items"   -> {"sales"}
      [] OTHER              -> {}

\* The columns introduced after the first release; the current CREATE TABLE
\* statements have them (db.ts:276-277, 316-320)
LaterColumns(t) ==
    CASE t = "appointments" -> {"payment_status", "payment_method"}
      [] t = "sale_items"   -> {"item_id", "item_type", "name", "quantity"}
      [] OTHER              -> {}

initOrder_salesFirst ==
    <<"customers", "services", "sales", "appointments", "products", "sale_items">>

\* db.ts:238-323: the order of the CREATE TABLE IF NOT EXISTS statements
initOrder ==
    <<"customers", "services", "appointments", "products", "sales", "sale_items">>

\* db.ts:348-353: the order of the DROP TABLE IF EXISTS ... CASCADE statements
dropOrder ==
    <<"sale_items", "sales", "appointments", "products", "services", "customers">>

EmptySchema == [tables |-> {}, columns |-> {}, fn |-> FALSE]

Stmt(kind, table) == [kind |-> kind, table |-> table]

CanCreate_plain(s, t) == t \notin s.tables /\ References(t) \subseteq s.tables

\* CREATE TABLE IF NOT EXISTS t succeeds when t exists (a notice) or every
\* table it references exists
CanCreate(s, t) == t \in s.tables \/ References(t) \subseteq s.tables

Created(s, t) ==
    IF t \in s.tables THEN s
    ELSE [s EXCEPT !.tables = @ \cup {t},
                   !.columns = @ \cup {<<t, c>> : c \in LaterColumns(t)}]

\* ALTER TABLE t ADD COLUMN ... succeeds when t exists and has none of the
\* columns
CanAdd(s, t, cols) == t \in s.tables /\ \A c \in cols : <<t, c>> \notin s.columns

Added(s, t, cols) == [s EXCEPT !.columns = @ \cup {<<t, c>> : c \in cols}]

\* DROP TABLE IF EXISTS t CASCADE: the table goes, with its columns and the
\* constraints that point at it; the tables referencing it stay
Dropped(s, t) ==
    [s EXCEPT !.tables = @ \ {t},
              !.columns = {x \in @ : x[1] # t}]

\* No count read yet
NotCounted == 0 - 1

NoRun == [op |-> "none", result |-> "none", log |-> <<>>, failed |-> FALSE,
          outside |-> FALSE, seen |-> [t \in TableNames |-> NotCounted],
          before |-> [schema |-> EmptySchema, rows |-> [t \in TableNames |-> 0]]]

AdmIdleLocals == [pc |-> "idle", op |-> "none", idx |-> 0, log |-> <<>>,
                  seen |-> [t \in TableNames |-> NotCounted],
                  before |-> [schema |-> EmptySchema, rows |-> [t \in TableNames |-> 0]]]

\* A maintenance call returns: it becomes the latest completed call
AdmReturn(result, log, cause) ==
    /\ adm' = AdmIdleLocals
    /\ alast' = [op |-> adm.op, result |-> result, log |-> log,
                 failed |-> (cause # "none"),
                 outside |-> (cause = "outside"), seen |-> adm.seen,
                 before |-> adm.before]
    /\ aprev' = alast

\* query() throws for a reason outside the statement
AdmFails ==
    /\ afaults < MaxFaults
    /\ afaults' = afaults + 1
    /\ UNCHANGED <<schema, rows>>

admFrame == UNCHANGED <<env, poolsMade, verifiedPools, dpc, dop, dcalls, loopVars,
                        dlast, dprev, apptVars, saleVars, crudVars, laterVars>>

\* What a statement of a running call leaves alone
stepFrame == admFrame /\ UNCHANGED <<pool, admCalls>>

\* db.ts:224-231, 340-347, 377-384: `if (!pool)` and the initPool call, whose
\* outcome is `initialized`; the function returns false when it is false
AdmEnter(op, initialized, pc) ==
    /\ adm.pc = "idle"
    /\ admCalls < MaxAdmCalls
    /\ admCalls' = admCalls + 1
    /\ LET a == [AdmIdleLocals EXCEPT !.op = op, !.pc = pc, !.idx = 1,
                                      !.before = [schema |-> schema, rows |-> rows]]
       IN IF pool = NoPool /\ ~initialized
          THEN /\ adm' = AdmIdleLocals
               /\ alast' = [op |-> op, result |-> "false", log |-> <<>>,
                            failed |-> TRUE, outside |-> TRUE, seen |-> a.seen,
                            before |-> a.before]
               /\ aprev' = alast
               /\ UNCHANGED pool
          ELSE /\ adm' = a
               /\ pool' = IF pool = NoPool THEN RealPool(1) ELSE pool
               /\ UNCHANGED <<alast, aprev>>
    /\ UNCHANGED <<schema, rows, afaults>>
    /\ admFrame

\* db.ts:221-236: initDatabase up to the statement SELECT 1 as test
initDatabase(initialized) == AdmEnter("initDatabase", initialized, "initTest")

\* db.ts:233-236: SELECT 1 as test
initTest ==
    /\ adm.pc = "initTest"
    /\ \/ /\ adm' = [adm EXCEPT !.pc = "initCreate", !.idx = 1]
          /\ UNCHANGED <<schema, rows, afaults, alast, aprev>>
       \/ /\ AdmFails
          /\ AdmReturn("false", adm.log, "outside")
    /\ stepFrame

\* db.ts:238-331: one CREATE TABLE IF NOT EXISTS statement; after the last
\* one the function returns true, and the catch block returns false.
\* resetDatabase (db.ts:357-364) passes that result on.
initCreate ==
    /\ adm.pc = "initCreate"
    /\ LET t == initOrder[adm.idx]
           log == Append(adm.log, Stmt("CREATE TABLE", t))
       IN \/ /\ CanCreate(schema, t)
             /\ schema' = Created(schema, t)
             /\ IF adm.idx = Len(initOrder)
                THEN AdmReturn("true", log, "none")
                ELSE /\ adm' = [adm EXCEPT !.idx = @ + 1, !.log = log]
                     /\ UNCHANGED <<alast, aprev>>
             /\ UNCHANGED <<rows, afaults>>
          \/ /\ ~CanCreate(schema, t)
             /\ AdmReturn("false", log, "statement")
             /\ UNCHANGED <<schema, rows, afaults>>
          \/ /\ AdmFails
             /\ AdmReturn("false", log, "outside")
    /\ stepFrame

\* db.ts:335-347: resetDatabase up to the first DROP statement
resetDatabase(initialized) == AdmEnter("resetDatabase", initialized, "resetDrop")

\* db.ts:348-357: one DROP TABLE IF EXISTS ... CASCADE statement; after the
\* last one initDatabase is called with the pool in place
resetDrop ==
    /\ adm.pc = "resetDrop"
    /\ LET t == dropOrder[adm.idx]
           log == Append(adm.log, Stmt("DROP TABLE", t))
       IN \/ /\ schema' = Dropped(schema, t)
             /\ rows' = [rows EXCEPT ![t] = 0]
             /\ adm' = [adm EXCEPT !.log = log,
                                   !.idx = IF adm.idx = Len(dropOrder) THEN 0 ELSE @ + 1,
                                   !.pc = IF adm.idx = Len(dropOrder) THEN "initTest"
                                          ELSE "resetDrop"]
             /\ UNCHANGED <<afaults, alast, aprev>>
          \/ /\ AdmFails
             /\ AdmReturn("false", log, "outside")
    /\ stepFrame

\* ---- migrateDatabase -----------------------------------------------------

\* SELECT column_name FROM information_schema.columns WHERE table_name = t
\* AND column_name = c returns a row
columnExists(s, t, c) == <<t, c>> \in s.columns

tableExists_never(s, t) == FALSE

\* SELECT table_name FROM information_schema.tables WHERE table_name = t
\* returns a row
tableExists(s, t) == t \in s.tables

\* A SELECT on information_schema and the `rows.length === 0` test after it
MigCheck(pc, present, pcMissing, pcPresent) ==
    /\ adm.pc = pc
    /\ \/ /\ adm' = [adm EXCEPT !.pc = IF present THEN pcPresent ELSE pcMissing]
          /\ UNCHANGED <<schema, rows, afaults, alast, aprev>>
       \/ /\ AdmFails
          /\ AdmReturn("false", adm.log, "outside")
    /\ stepFrame

\* An ALTER TABLE or CREATE TABLE statement of the migration; an error is
\* caught at db.ts:527-530 and the function returns false
MigDdl(pc, stmt, can, after, pcNext) ==
    /\ adm.pc = pc
    /\ LET log == Append(adm.log, stmt)
       IN \/ /\ can
             /\ schema' = after
             /\ adm' = [adm EXCEPT !.pc = pcNext, !.log = log]
             /\ UNCHANGED <<rows, afaults, alast, aprev>>
          \/ /\ ~can
             /\ AdmReturn("false", log, "statement")
             /\ UNCHANGED <<schema, rows, afaults>>
          \/ /\ AdmFails
             /\ AdmReturn("false", log, "outside")
    /\ stepFrame

\* db.ts:373-384
migrateDatabase(initialized) ==
    AdmEnter("migrateDatabase", initialized, "paymentStatusExists")

\* db.ts:386-392
paymentStatusExists ==
    MigCheck("paymentStatusExists", columnExists(schema, "appointments", "payment_status"),
             "addPaymentStatus", "paymentMethodExists")

\* db.ts:393-400
addPaymentStatus ==
    MigDdl("addPaymentStatus", Stmt("ALTER TABLE", "appointments"),
           CanAdd(schema, "appointments", {"payment_status"}),
           Added(schema, "appointments", {"payment_status"}), "paymentMethodExists")

\* db.ts:402-409
paymentMethodExists ==
    MigCheck("paymentMethodExists", columnExists(schema, "appointments", "payment_method"),
             "addPaymentMethod", "productsTableExists")

\* db.ts:409-416
addPaymentMethod ==
    MigDdl("addPaymentMethod", Stmt("ALTER TABLE", "appointments"),
           CanAdd(schema, "appointments", {"payment_method"}),
           Added(schema, "appointments", {"payment_method"}), "productsTableExists")

\* db.ts:418-425
productsTableExists ==
    MigCheck("productsTableExists", tableExists(schema, "products"),
             "createProducts", "salesTableExists")

\* db.ts:425-439
createProducts ==
    MigDdl("createProducts", Stmt("CREATE TABLE", "products"),
           CanCreate(schema, "products"), Created(schema, "products"), "salesTableExists")

\* db.ts:441-448
salesTableExists ==
    MigCheck("salesTableExists", tableExists(schema, "sales"),
             "createSales", "saleItemsTableExists")

\* db.ts:448-462
createSales ==
    MigDdl("createSales", Stmt("CREATE TABLE", "sales"),
           CanCreate(schema, "sales"), Created(schema, "sales"), "saleItemsTableExists")

\* db.ts:464-471
saleItemsTableExists ==
    MigCheck("saleItemsTableExists", tableExists(schema, "sale_items"),
             "createSaleItems", "itemIdExists")

\* db.ts:471-486
createSaleItems ==
    MigDdl("createSaleItems", Stmt("CREATE TABLE", "sale_items"),
           CanCreate(schema, "sale_items"), Created(schema, "sale_items"), "createFunction")

\* db.ts:487-494
itemIdExists ==
    MigCheck("itemIdExists", columnExists(schema, "sale_items", "item_id"),
             "addSaleItemColumns", "createFunction")

\* db.ts:494-504: one ALTER TABLE adding item_id, item_type, name, quantity
addSaleItemColumns ==
    MigDdl("addSaleItemColumns", Stmt("ALTER TABLE", "sale_items"),
           CanAdd(schema, "sale_items", LaterColumns("sale_items")),
           Added(schema, "sale_items", LaterColumns("sale_items")), "createFunction")

\* db.ts:507-530: CREATE OR REPLACE FUNCTION public.init_sale_items_table(),
\* issued on every run, then return true
createFunction ==
    /\ adm.pc = "createFunction"
    /\ LET log == Append(adm.log, Stmt("CREATE FUNCTION", "init_sale_items_table"))
       IN \/ /\ schema' = [schema EXCEPT !.fn = TRUE]
             /\ AdmReturn("true", log, "none")
             /\ UNCHANGED <<rows, afaults>>
          \/ /\ AdmFails
             /\ AdmReturn("false", log, "outside")
    /\ stepFrame

\* ---- seedInitialData -----------------------------------------------------

\* db.ts:539, 559, 580, 623: the tables seeded, in this order
seedOrder == <<"customers", "services", "appointments", "products">>

\* db.ts:546-555, 566-576, 606-614, 630-637: the rows of the VALUES lists
seedRows(t) ==
    CASE t = "customers" -> 4
      [] t = "services" -> 5
      [] t = "appointments" -> 4
      [] t = "products" -> 5
      [] OTHER -> 0

\* db.ts:534-539; query() throws when the pool cannot be initialized
\* (db.ts:171-177) and the catch block returns false
seedInitialData(initialized) == AdmEnter("seedInitialData", initialized, "seedCount")

\* After table seedOrder[adm.idx] is done: the next table, or return true
SeedNext(log) ==
    IF adm.idx = Len(seedOrder)
    THEN AdmReturn("true", log, "none")
    ELSE /\ adm' = [adm EXCEPT !.idx = @ + 1, !.pc = "seedCount", !.log = log]
         /\ UNCHANGED <<alast, aprev>>

\* The count was not zero: on to the next table, or return true
SeedCounted(t) ==
    IF adm.idx = Len(seedOrder)
    THEN /\ adm' = AdmIdleLocals
         /\ alast' = [op |-> adm.op, result |-> "true", log |-> adm.log,
                      failed |-> FALSE, outside |-> FALSE,
                      seen |-> [adm.seen EXCEPT ![t] = rows[t]],
                      before |-> adm.before]
         /\ aprev' = alast
    ELSE /\ adm' = [adm EXCEPT !.idx = @ + 1, !.pc = "seedCount", !.seen[t] = rows[t]]
         /\ UNCHANGED <<alast, aprev>>

seedIfEmpty_always(count) == TRUE

\* db.ts:544, 564, 585, 628: `if (count === 0)`
seedIfEmpty(count) == count = 0

\* db.ts:539-544, 559-564, 580-585, 623-628: SELECT COUNT(*) FROM t
seedCount ==
    /\ adm.pc = "seedCount"
    /\ LET t == seedOrder[adm.idx]
       IN \/ /\ t \in schema.tables
             /\ IF seedIfEmpty(rows[t])
                THEN /\ adm' = [adm EXCEPT !.seen[t] = rows[t],
                                   !.pc = IF t = "appointments" THEN "seedLookup"
                                          ELSE "seedInsert"]
                     /\ UNCHANGED <<alast, aprev>>
                ELSE SeedCounted(t)
             /\ UNCHANGED <<schema, rows, afaults>>
          \/ /\ t \notin schema.tables
             /\ AdmReturn("false", adm.log, "statement")
             /\ UNCHANGED <<schema, rows, afaults>>
          \/ /\ AdmFails
             /\ AdmReturn("false", adm.log, "outside")
    /\ stepFrame

\* db.ts:587-593 and 619-621: SELECT id FROM customers ... LIMIT 4,
\* SELECT id FROM services ... LIMIT 5; no appointments without both
seedLookup ==
    /\ adm.pc = "seedLookup"
    /\ \/ /\ IF rows["customers"] > 0 /\ rows["services"] > 0
             THEN /\ adm' = [adm EXCEPT !.pc = "seedInsert"]
                  /\ UNCHANGED <<alast, aprev>>
             ELSE SeedNext(adm.log)
          /\ UNCHANGED <<schema, rows, afaults>>
       \/ /\ AdmFails
          /\ AdmReturn("false", adm.log, "outside")
    /\ stepFrame

\* db.ts:545-556, 565-577, 594-618, 629-639: INSERT INTO t ... VALUES ...
seedInsert ==
    /\ adm.pc = "seedInsert"
    /\ LET t == seedOrder[adm.idx]
           log == Append(adm.log, Stmt("INSERT", t))
       IN \/ /\ rows' = [rows EXCEPT ![t] = @ + seedRows(t)]
             /\ SeedNext(log)
             /\ UNCHANGED <<schema, afaults>>
          \/ /\ AdmFails
             /\ AdmReturn("false", log, "outside")
    /\ stepFrame

\* ---- the schemas and contents a behaviour starts from -------------------

\* The first release: customers, services and appointments only
FirstRelease == [tables |-> {"customers", "services", "appointments"},
                 columns |-> {}, fn |-> FALSE]

\* What initDatabase creates on an empty database
Current ==
    [tables |-> TableNames,
     columns |-> {<<t, c>> : t \in {"appointments"}, c \in LaterColumns("appointments")}
                 \cup {<<t, c>> : t \in {"sale_items"}, c \in LaterColumns("sale_items")},
     fn |-> FALSE]

\* customers, services and appointments exist and any subset of the later
\* tables and columns is missing
StartSchemas ==
    {[tables |-> FirstRelease.tables \cup later, columns |-> ac \cup sc, fn |-> FALSE] :
        later \in SUBSET {"products", "sales", "sale_items"},
        ac \in SUBSET {<<"appointments", c>> : c \in LaterColumns("appointments")},
        sc \in SUBSET {<<"sale_items", c>> : c \in LaterColumns("sale_items")}}

\* The columns of a table that does not exist do not exist
WellFormed(s) == \A x \in s.columns : x[1] \in s.tables

InitAdm(schemas, contents) ==
    /\ schema \in {s \in schemas : WellFormed(s)}
    /\ rows \in {r \in [TableNames -> contents] :
                    \A t \in TableNames :
                        (t \notin schema.tables \/ t \notin {"customers", "services",
                                                             "appointments", "products"})
                            => r[t] = 0}
    /\ adm = AdmIdleLocals
    /\ alast = NoRun
    /\ aprev = NoRun
    /\ afaults = 0
    /\ admCalls = 0

AdmIdle ==
    /\ schema = Current
    /\ rows = [t \in TableNames |-> 0]
    /\ adm = AdmIdleLocals
    /\ alast = NoRun
    /\ aprev = NoRun
    /\ afaults = 0
    /\ admCalls = 0

\* The environment of the maintenance calls: a server with the driver and
\* the connection string; the pool may not have been created yet
InitAdmDb ==
    /\ env = [browser |-> FALSE, pg |-> TRUE, url |-> TRUE, reachable |-> TRUE,
              ctorThrows |-> FALSE]
    /\ pool \in {NoPool, RealPool(1)}
    /\ poolsMade = 1
    /\ verifiedPools = {1}
    /\ dpc = [p \in DbProcs |-> "idle"]
    /\ dop = [p \in DbProcs |-> "none"]
    /\ dcalls = [p \in DbProcs |-> 0]
    /\ currentRetry = [p \in DbProcs |-> 0]
    /\ lastError = [p \in DbProcs |-> NoError]
    /\ attempts = [p \in DbProcs |-> 0]
    /\ delays = [p \in DbProcs |-> <<>>]
    /\ allTransient = [p \in DbProcs |-> TRUE]
    /\ dlast = [p \in DbProcs |-> NoCall]
    /\ dprev = [p \in DbProcs |-> NoPrev]

NextSchema ==
    \/ \E initialized \in BOOLEAN :
          \/ initDatabase(initialized)
          \/ resetDatabase(initialized)
          \/ seedInitialData(initialized)
    \/ initTest
    \/ initCreate
    \/ resetDrop
    \/ seedCount
    \/ seedLookup
    \/ seedInsert

NextMigrate ==
    \/ \E initialized \in BOOLEAN : migrateDatabase(initialized)
    \/ paymentStatusExists
    \/ addPaymentStatus
    \/ paymentMethodExists
    \/ addPaymentMethod
    \/ productsTableExists
    \/ createProducts
    \/ salesTableExists
    \/ createSales
    \/ saleItemsTableExists
    \/ createSaleItems
    \/ itemIdExists
    \/ addSaleItemColumns
    \/ createFunction

-----------------------------------------------------------------------------
(***************************************************************************)
(* db-check/route.ts: the create, get-by-id, update and delete actions of   *)
(* customers, services, appointments and products, called one after the     *)
(* other, on the SQL database and on the mock pool of db.ts:93-167.          *)
(* The date and time of an appointment and the last_visit of a customer are *)
(* left out of the rows.                                                     *)
(***************************************************************************)

Entities == {"customer", "service", "appointment", "product"}

\* A JavaScript number
Num(n) == <<"number", n>>

\* The string the driver returns for the value of a DECIMAL column
Dec(n) == <<"string", n>>

\* Number(v)
Number(v) == <<"number", v[2]>>

\* Number(v) || d
NumOr(v, d) == IF v[2] = 0 THEN Num(d) ELSE Number(v)

\* s || d
StrOr(s, d) == IF s = "" THEN d ELSE s

\* The valid input records of the create actions
Inputs(e) ==
    CASE e = "customer" ->
           [name : {"a"}, phone : {"", "5"}, email : {""}]
      [] e = "service" ->
           [name : {"a"}, duration : {Num(0), Num(2)}, price : {Num(0), Num(2)},
            description : {""}]
      [] e = "appointment" ->
           [customer_id : {1}, service_id : {1}, duration : {Num(0), Num(2)},
            status : {"beklemede"}, notes : {""}]
      [] e = "product" ->
           [name : {"a"}, category : {"c"}, price : {Num(0), Num(2)},
            stock : {Num(0), Num(2)}, description : {""}]

\* The fields of the Partial<...> argument of the update actions; a field
\* that is not given is the empty set
Patches(e) ==
    CASE e = "customer" ->
           [name : {{}, {"b"}, {""}}, phone : {{}, {""}}, email : {{}}]
      [] e = "service" ->
           [name : {{}}, duration : {{}, {Num(0)}}, price : {{}, {Num(0)}, {Num(3)}},
            description : {{}}]
      [] e = "appointment" ->
           [customer_id : {{}, {3}}, service_id : {{}}, duration : {{}, {Num(0)}},
            status : {{}}, notes : {{}}]
      [] e = "product" ->
           [name : {{}}, category : {{}}, price : {{}, {Num(0)}},
            stock : {{}, {Num(3)}}, description : {{}}]

\* The ids a call may name; 3 is never generated
CrudIds == {1, 2, 3}

Ids(rs) == {r.id : r \in rs}

RowOf(rs, id) == CHOOSE r \in rs : r.id = id

\* The value of an optional field, or d when it is not given
Given(opt, d) == IF opt = {} THEN d ELSE CHOOSE v \in opt : TRUE

\* route.ts:131, 247-252, 485-493, 837-843: the parameters the create
\* action passes to its INSERT
createParams(e, in) ==
    CASE e = "customer" ->
           [name |-> in.name, phone |-> StrOr(in.phone, ""),
            email |-> StrOr(in.email, ""), visits |-> 0]
      [] e = "service" ->
           [name |-> in.name, duration |-> NumOr(in.duration, 30),
            price |-> NumOr(in.price, 0), description |-> StrOr(in.description, "")]
      [] e = "appointment" ->
           [customer_id |-> in.customer_id, service_id |-> in.service_id,
            duration |-> NumOr(in.duration, 30),
            status |-> StrOr(in.status, "onaylandi"), notes |-> StrOr(in.notes, "")]
      [] e = "product" ->
           [name |-> in.name, category |-> StrOr(in.category, "Diger"),
            price |-> NumOr(in.price, 0), stock |-> NumOr(in.stock, 0),
            description |-> StrOr(in.description, "")]

\* The row INSERT ... RETURNING * stores and returns: the parameters, the
\* SERIAL id, and the DECIMAL columns (db.ts:258, 289) as the driver
\* renders them
insertRow(e, params, id) ==
    CASE e = "customer" ->
           [id |-> id, name |-> params.name, phone |-> params.phone,
            email |-> params.email, visits |-> params.visits]
      [] e = "service" ->
           [id |-> id, name |-> params.name, duration |-> params.duration,
            price |-> Dec(params.price[2]), description |-> params.description]
      [] e = "appointment" ->
           [id |-> id, customer_id |-> params.customer_id,
            service_id |-> params.service_id, duration |-> params.duration,
            status |-> params.status, notes |-> params.notes]
      [] e = "product" ->
           [id |-> id, name |-> params.name, category |-> params.category,
            price |-> Dec(params.price[2]), stock |-> params.stock,
            description |-> params.description]

\* route.ts:109-116, 230, 429-434, 816-821: what get-by-id makes of rows[0]
formatRow(e, r) ==
    IF e = "product"
    THEN [r EXCEPT !.price = Number(r.price), !.stock = Number(r.stock)]
    ELSE r

\* route.ts:157-169, 278-292, 533-621, 870-886: the row after the UPDATE
updatedRow(e, r, p) ==
    CASE e = "customer" ->
           [r EXCEPT !.name = StrOr(Given(p.name, ""), r.name),
                     !.phone = Given(p.phone, r.phone),
                     !.email = Given(p.email, r.email)]
      [] e = "service" ->
           [r EXCEPT !.name = StrOr(Given(p.name, ""), r.name),
                     !.duration = IF Given(p.duration, Num(0))[2] = 0 THEN r.duration
                                  ELSE Number(Given(p.duration, Num(0))),
                     !.price = IF Given(p.price, Num(0))[2] = 0 THEN r.price
                               ELSE Dec(Given(p.price, Num(0))[2]),
                     !.description = Given(p.description, r.description)]
      [] e = "appointment" ->
           [r EXCEPT !.customer_id = Given(p.customer_id, r.customer_id),
                     !.service_id = Given(p.service_id, r.service_id),
                     !.duration = Given(p.duration, r.duration),
                     !.status = Given(p.status, r.status),
                     !.notes = Given(p.notes, r.notes)]
      [] e = "product" ->
           [r EXCEPT !.name = StrOr(Given(p.name, ""), r.name),
                     !.category = StrOr(Given(p.category, ""), r.category),
                     !.price = IF p.price = {} THEN r.price ELSE Dec(Given(p.price, r.price)[2]),
                     !.stock = IF p.stock = {} THEN r.stock ELSE Number(Given(p.stock, r.stock)),
                     !.description = Given(p.description, r.description)]

\* db.ts:97-117: mockCustomers and mockServices
MockData ==
    [e \in Entities |->
        CASE e = "customer" ->
               {[id |-> 1, name |-> "Ahmet", phone |-> "555-1234", email |-> "ahmet",
                 visits |-> 12],
                [id |-> 2, name |-> "Ayse", phone |-> "555-5678", email |-> "ayse",
                 visits |-> 8]}
          [] e = "service" ->
               {[id |-> 1, name |-> "Sac Kesimi", duration |-> Num(30),
                 price |-> Num(100), description |-> "Standart"],
                [id |-> 2, name |-> "Sakal Tirasi", duration |-> Num(20),
                 price |-> Num(50), description |-> "Sakal"]}
          [] OTHER -> {}]

\* db.ts:132-157: what the mock pool stores for an INSERT, from the
\* parameters the action passes
mockInsertRow(e, params, id) ==
    IF e = "customer"
    THEN [id |-> id, name |-> StrOr(params.name, "New Customer"),
          phone |-> StrOr(params.phone, ""), email |-> StrOr(params.email, ""),
          visits |-> 0]
    ELSE [id |-> id, name |-> StrOr(params.name, "New Service"),
          duration |-> NumOr(params.duration, 30),
          price |-> NumOr(params.price, 0),
          description |-> StrOr(params.description, "")]

\* db.ts:124-157: the statements the mock pool recognises; it answers every
\* other one with no rows
MockKnows(e) == e \in {"customer", "service"}

\* The rows a database of the application starts with
StartRows ==
    [e \in Entities |->
        CASE e = "customer" ->
               {[id |-> 1, name |-> "a", phone |-> "", email |-> "", visits |-> 0]}
          [] e = "service" ->
               {[id |-> 1, name |-> "a", duration |-> Num(2), price |-> Dec(2),
                 description |-> ""]}
          [] OTHER -> {}]

NoCrud == [op |-> "none", e |-> "none", id |-> 0, input |-> <<>>, kind |-> "none",
           rows |-> {}, found |-> FALSE, outside |-> FALSE,
           before |-> [e \in Entities |-> {}]]

InitCrud ==
    /\ backend \in {"real", "mock"}
    /\ crud = IF backend = "mock" THEN MockData ELSE StartRows
    /\ nextId = [e \in Entities |-> IF e \in {"customer", "service"} THEN 2 ELSE 1]
    /\ clast = NoCrud
    /\ cprev = NoCrud
    /\ ccalls = 0
    /\ cfaults = 0

CrudIdle ==
    /\ backend = "real"
    /\ crud = StartRows
    /\ nextId = [e \in Entities |-> IF e \in {"customer", "service"} THEN 2 ELSE 1]
    /\ clast = NoCrud
    /\ cprev = NoCrud
    /\ ccalls = 0
    /\ cfaults = 0

crudFrame == UNCHANGED <<backend, dbVars, apptVars, saleVars, admVars, laterVars>>

\* A call returns
Done(op, e, id, input, kind, out, found, outside) ==
    /\ clast' = [op |-> op, e |-> e, id |-> id, input |-> input, kind |-> kind,
                 rows |-> out, found |-> found, outside |-> outside, before |-> crud]
    /\ cprev' = clast
    /\ ccalls' = ccalls + 1

\* query() throws for a reason outside the statement
CrudFails ==
    /\ backend = "real"
    /\ cfaults < MaxFaults
    /\ cfaults' = cfaults + 1
    /\ UNCHANGED <<crud, nextId>>

\* route.ts:448-476: the customer (or service) id createAppointment inserts:
\* the given one when it has a row, else that of a row LIMIT 1 returns
Resolved(rs, id) ==
    IF id \in Ids(rs) \/ rs = {} THEN {id} ELSE Ids(rs)

\* SELECT id FROM <table> WHERE id = $1 (route.ts:149, 187, 270, 310, 527,
\* 664, 861, 904); the mock pool knows no such statement and answers with
\* no rows (db.ts:162-163)
selectId(e, id) ==
    IF backend = "mock" THEN {} ELSE {r \in crud[e] : r.id = id}

notFound_never(checkRows) == FALSE

\* `checkResult.rows.length === 0` (route.ts:150, 188, 271, 311, 528, 665,
\* 862, 905)
notFound(checkRows) == checkRows = {}

\* route.ts:123-142, 239-263, 442-520, 829-854: createCustomer,
\* createService, createAppointment, createProduct
createEntity(e, in) ==
    /\ ccalls < MaxCrudCalls
    /\ LET params == createParams(e, in) IN
       \/ /\ backend = "real"
          /\ e # "appointment"
          /\ crud' = [crud EXCEPT ![e] = @ \cup {insertRow(e, params, nextId[e])}]
          /\ nextId' = [nextId EXCEPT ![e] = @ + 1]
          /\ Done("create", e, nextId[e], in, "row",
                  {insertRow(e, params, nextId[e])}, FALSE, FALSE)
          /\ UNCHANGED cfaults
       \/ /\ backend = "real"
          /\ e = "appointment"
          /\ \E cid \in Resolved(crud["customer"], in.customer_id),
                sid \in Resolved(crud["service"], in.service_id) :
               LET row == insertRow(e, [params EXCEPT !.customer_id = cid,
                                                      !.service_id = sid], nextId[e])
               IN IF cid \in Ids(crud["customer"]) /\ sid \in Ids(crud["service"])
                  THEN /\ crud' = [crud EXCEPT
                            ![e] = @ \cup {row},
                            !["customer"] =
                                IF in.customer_id \in Ids(crud["customer"])
                                THEN {IF r.id = cid THEN [r EXCEPT !.visits = @ + 1] ELSE r :
                                         r \in @}
                                ELSE @]
                       /\ nextId' = [nextId EXCEPT ![e] = @ + 1]
                       /\ Done("create", e, nextId[e], in, "row", {row}, FALSE, FALSE)
                  ELSE /\ Done("create", e, 0, in, "threw", {}, FALSE, FALSE)
                       /\ UNCHANGED <<crud, nextId>>
          /\ UNCHANGED cfaults
       \/ /\ CrudFails
          /\ Done("create", e, 0, in, "threw", {}, FALSE, TRUE)
       \/ /\ backend = "mock"
          /\ IF MockKnows(e)
             THEN LET row == mockInsertRow(e, params, Cardinality(crud[e]) + 1)
                  IN /\ crud' = [crud EXCEPT ![e] = @ \cup {row}]
                     /\ Done("create", e, row.id, in, "row", {row}, FALSE, FALSE)
             ELSE /\ UNCHANGED crud
                  /\ Done("create", e, 0, in,
                          IF e = "appointment" THEN "noid" ELSE "threw", {}, FALSE, FALSE)
          /\ UNCHANGED <<nextId, cfaults>>
    /\ crudFrame

\* db.ts:124-130: the mock pool answers SELECT * FROM customers (services)
\* with every row it has, whatever the WHERE clause; rows[0] is the oldest
MockFirst(rs) == {r \in rs : \A q \in rs : r.id <= q.id}

\* route.ts:99-121, 224-237, 407-440, 805-827: getCustomerById,
\* getServiceById, getAppointmentById, getProductById
getEntityById(e, id) ==
    /\ ccalls < MaxCrudCalls
    /\ \/ /\ backend = "real"
          /\ LET rs == {formatRow(e, r) : r \in {x \in crud[e] : x.id = id}}
             IN Done("get", e, id, <<>>, IF rs = {} THEN "null" ELSE "row", rs,
                     rs # {}, FALSE)
          /\ UNCHANGED <<crud, nextId, cfaults>>
       \/ /\ CrudFails
          /\ Done("get", e, id, <<>>, "null", {}, id \in Ids(crud[e]), TRUE)
       \/ /\ backend = "mock"
          /\ LET rs == IF MockKnows(e)
                       THEN {formatRow(e, r) : r \in MockFirst(crud[e])}
                       ELSE {}
             IN Done("get", e, id, <<>>, IF rs = {} THEN "null" ELSE "row", rs,
                     id \in Ids(crud[e]), FALSE)
          /\ UNCHANGED <<crud, nextId, cfaults>>
    /\ crudFrame

\* The REFERENCES clauses of appointments (db.ts:269-270) hold for the row
crudKeysHold(e, r) ==
    e = "appointment" =>
        r.customer_id \in Ids(crud["customer"]) /\ r.service_id \in Ids(crud["service"])

\* route.ts:144-180, 265-303, 522-657, 856-897: updateCustomer,
\* updateService, updateAppointment, updateProduct
updateEntity(e, id, p) ==
    /\ ccalls < MaxCrudCalls
    /\ LET found == id \in Ids(crud[e])
           missing == notFound(selectId(e, id))
       IN \/ /\ missing
             /\ Done("update", e, id, p, "failure", {}, found, FALSE)
             /\ UNCHANGED <<crud, nextId, cfaults>>
          \/ /\ ~missing
             /\ found
             /\ LET r == updatedRow(e, RowOf(crud[e], id), p)
                IN IF crudKeysHold(e, r)
                   THEN /\ crud' = [crud EXCEPT ![e] = (@ \ {RowOf(crud[e], id)}) \cup {r}]
                        /\ Done("update", e, id, p, "row", {r}, found, FALSE)
                   ELSE /\ UNCHANGED crud
                        /\ Done("update", e, id, p, "failure", {}, found, FALSE)
             /\ UNCHANGED <<nextId, cfaults>>
          \/ /\ ~missing
             /\ ~found
             /\ Done("update", e, id, p, "threw", {}, found, FALSE)
             /\ UNCHANGED <<crud, nextId, cfaults>>
          \/ /\ CrudFails
             /\ Done("update", e, id, p, "failure", {}, found, TRUE)
    /\ crudFrame

\* DELETE FROM ... WHERE id = $1, with ON DELETE CASCADE of appointments
\* (db.ts:269-270)
Deleted(e, id) ==
    [x \in Entities |->
        IF x = e THEN {r \in crud[x] : r.id # id}
        ELSE IF x = "appointment" /\ e = "customer"
        THEN {r \in crud[x] : r.customer_id # id}
        ELSE IF x = "appointment" /\ e = "service"
        THEN {r \in crud[x] : r.service_id # id}
        ELSE crud[x]]

\* route.ts:182-207, 305-330, 659-686, 899-925: deleteCustomer,
\* deleteService, deleteAppointment, deleteProduct
deleteEntity(e, id) ==
    /\ ccalls < MaxCrudCalls
    /\ LET found == id \in Ids(crud[e])
           missing == notFound(selectId(e, id))
       IN \/ /\ missing
             /\ Done("delete", e, id, <<>>, "failure", {}, found, FALSE)
             /\ UNCHANGED <<crud, nextId, cfaults>>
          \/ /\ ~missing
             /\ crud' = Deleted(e, id)
             /\ Done("delete", e, id, <<>>, "success", {}, found, FALSE)
             /\ UNCHANGED <<nextId, cfaults>>
          \/ /\ CrudFails
             /\ Done("delete", e, id, <<>>, "failure", {}, found, TRUE)
    /\ crudFrame

NextCrud ==
    \/ \E e \in Entities : \E in \in Inputs(e) : createEntity(e, in)
    \/ \E e \in Entities, id \in CrudIds : getEntityById(e, id)
    \/ \E e \in Entities, id \in CrudIds : \E p \in Patches(e) : updateEntity(e, id, p)
    \/ \E e \in Entities, id \in CrudIds : deleteEntity(e, id)

\* ---- Properties of the create / get / update / delete actions ----------

\* C16: an update or a delete of a customer, a service, an appointment or a
\* product whose id matches no row returns {success: false, message}
\* without raising, and leaves every table as it was.
C16_MissingIdFailsSoft ==
    (clast.op \in {"update", "delete"} /\ ~clast.found) =>
        /\ clast.kind = "failure"
        /\ crud = clast.before

\* A delete with an id no row has, on the SQL database, right after a row of
\* the same table was created
C16_Witness ==
    /\ backend = "real"
    /\ cprev.op = "create" /\ cprev.kind = "row"
    /\ clast.op = "delete" /\ clast.e = cprev.e
    /\ ~clast.found /\ ~clast.outside
    /\ clast.kind = "failure"
    /\ crud[clast.e] # {}

\* The input fields of a create call all have the passed values in row r
SameFields(in, r) ==
    \A f \in DOMAIN in : f \in DOMAIN r /\ r[f] = in[f]

\* A get-by-id with the id a create just returned
GetAfterCreate ==
    /\ cprev.op = "create" /\ cprev.kind = "row"
    /\ clast.op = "get" /\ clast.e = cprev.e /\ clast.id = cprev.id
    /\ ~clast.outside

\* C17: a create followed by a get-by-id returns a record whose input
\* fields equal the values passed, zero values included, with the generated
\* id, on the SQL database and on the mock store.
C17_CreateThenGetRoundTrip ==
    GetAfterCreate =>
        /\ clast.kind = "row"
        /\ \A r \in clast.rows : r.id = cprev.id /\ SameFields(cprev.input, r)

\* ---- getDashboardStats (route.ts:1216-1300) ------------------------------

\* The dates an appointment can have, seen from one call: the date the call
\* computes at route.ts:1221, and any other
StatDates == {"today", "other"}

\* Values of appointments.status (db.ts:274, route.ts:1242-1243)
Statuses == {"beklemede", "onaylandi", "iptal"}

\* The tables the statistics read: the number of appointments of each date
\* and status, the number of customers, and of those with a recent visit
StatTables ==
    {t \in [appts : [StatDates \X Statuses -> 0..MaxPerStatus],
            customers : 0..1, recent : 0..1] : t.recent <= t.customers}

\* The driver renders COUNT(*), a bigint, as a string; parseInt reads it
parseInt(v) == v[2]

groupByStatus_allDates(date) ==
    {[status |-> s,
      count |-> Dec(stTable.appts[<<"today", s>>] + stTable.appts[<<"other", s>>])] :
        s \in {x \in Statuses :
                  stTable.appts[<<"today", x>>] + stTable.appts[<<"other", x>>] > 0}}

\* route.ts:1224-1234: SELECT status, COUNT(*) ... WHERE date = $1 GROUP BY
\* status: one row per status that has an appointment on that date
groupByStatus(date) ==
    {[status |-> s, count |-> Dec(stTable.appts[<<date, s>>])] :
        s \in {x \in Statuses : stTable.appts[<<date, x>>] > 0}}

\* route.ts:1237-1245: the forEach over the rows
RECURSIVE countByStatus(_, _)
countByStatus(resultRows, acc) ==
    IF resultRows = {} THEN acc
    ELSE LET row == CHOOSE r \in resultRows : TRUE
         IN countByStatus(resultRows \ {row},
              [pending   |-> IF row.status = "beklemede" THEN parseInt(row.count)
                             ELSE acc.pending,
               confirmed |-> IF row.status = "onaylandi" THEN parseInt(row.count)
                             ELSE acc.confirmed,
               count     |-> acc.count + parseInt(row.count)])

\* route.ts:1248: SELECT COUNT(*) as count FROM appointments
countAppointments ==
    LET n(d) == stTable.appts[<<d, "beklemede">>] + stTable.appts[<<d, "onaylandi">>]
                + stTable.appts[<<d, "iptal">>]
    IN Dec(n("today") + n("other"))

\* route.ts:1288-1298: the statistics returned from the catch block
ZeroStats ==
    [todayAppointments |-> [count |-> 0, pending |-> 0, confirmed |-> 0],
     totalAppointments |-> 0, totalCustomers |-> 0, newCustomers |-> 0,
     weeklyRevenue |-> 0]

StatIdleLocals ==
    [pc |-> "idle", today |-> [pending |-> 0, confirmed |-> 0, count |-> 0],
     totalAppointments |-> 0, totalCustomers |-> 0, newCustomers |-> 0,
     result |-> ZeroStats, failed |-> FALSE]

InitStats ==
    /\ stTable \in StatTables
    /\ stat = StatIdleLocals
    /\ stFaults = 0

StatsIdle ==
    /\ stTable = [appts |-> [k \in StatDates \X Statuses |-> 0], customers |-> 0,
                  recent |-> 0]
    /\ stat = StatIdleLocals
    /\ stFaults = 0

statsFrame == UNCHANGED <<stTable, dbVars, apptVars, saleVars, admVars, crudVars,
                          httpVars, payVars, retryVars, seedVars>>

\* A query() of the call throws (db.ts:170-218): route.ts:1285-1299
statsCatch(pc) ==
    /\ stat.pc = pc
    /\ stFaults < MaxFaults
    /\ stFaults' = stFaults + 1
    /\ stat' = [stat EXCEPT !.pc = "done", !.result = ZeroStats, !.failed = TRUE]
    /\ statsFrame

\* route.ts:1216-1221
getDashboardStats ==
    /\ stat.pc = "idle"
    /\ stat' = [stat EXCEPT !.pc = "today"]
    /\ UNCHANGED stFaults
    /\ statsFrame

\* route.ts:1224-1245
statsToday ==
    \/ /\ stat.pc = "today"
       /\ stat' = [stat EXCEPT
              !.pc = "total",
              !.today = countByStatus(groupByStatus("today"),
                                      [pending |-> 0, confirmed |-> 0, count |-> 0])]
       /\ UNCHANGED stFaults
       /\ statsFrame
    \/ statsCatch("today")

\* route.ts:1248-1249
statsTotal ==
    \/ /\ stat.pc = "total"
       /\ stat' = [stat EXCEPT !.pc = "customers",
                               !.totalAppointments = parseInt(countAppointments)]
       /\ UNCHANGED stFaults
       /\ statsFrame
    \/ statsCatch("total")

\* route.ts:1252-1253
statsCustomers ==
    \/ /\ stat.pc = "customers"
       /\ stat' = [stat EXCEPT !.pc = "new",
                               !.totalCustomers = parseInt(Dec(stTable.customers))]
       /\ UNCHANGED stFaults
       /\ statsFrame
    \/ statsCatch("customers")

\* route.ts:1256-1266
statsNewCustomers ==
    \/ /\ stat.pc = "new"
       /\ stat' = [stat EXCEPT !.pc = "return",
                               !.newCustomers = parseInt(Dec(stTable.recent))]
       /\ UNCHANGED stFaults
       /\ statsFrame
    \/ statsCatch("new")

\* route.ts:1270-1284
statsReturn ==
    /\ stat.pc = "return"
    /\ stat' = [stat EXCEPT
           !.pc = "done",
           !.result = [todayAppointments |-> stat.today,
                       totalAppointments |-> stat.totalAppointments,
                       totalCustomers |-> stat.totalCustomers,
                       newCustomers |-> stat.newCustomers,
                       weeklyRevenue |-> 1250]]
    /\ UNCHANGED stFaults
    /\ statsFrame

NextStats ==
    \/ getDashboardStats
    \/ statsToday
    \/ statsTotal
    \/ statsCustomers
    \/ statsNewCustomers
    \/ statsReturn

\* ---- The administrative endpoints -----------------------------------------
\* GET /api/db-check (src/app/api/db-check/route.ts:3-47), GET /api/db-init
\* (src/unnamed/part_000:80-136), GET /api/db-reset
\* (src/app/api/db-reset/route.ts:4-47)

\* What an awaited call of a handler does: it returns true, returns false,
\* or an exception leaves it
Outcomes == {"true", "false", "throws"}

NoRequest == [route |-> "none", pc |-> "idle", steps |-> <<>>]

\* What GET /api/db-check finds in process.env.DATABASE_URL: whether it is
\* set, and whether new URL() accepts it
NoUrl == [urlSet |-> FALSE, parses |-> FALSE]

InitHttp ==
    /\ hreq = NoRequest
    /\ hres = <<>>

HttpIdle == InitHttp

httpFrame == UNCHANGED <<dbVars, apptVars, saleVars, admVars, crudVars, statVars,
                         payVars, retryVars, seedVars>>

\* No handler is busy and another request may arrive
Accepting ==
    /\ hreq = NoRequest
    /\ Len(hres) < MaxRequests

\* NextResponse.json(body, {status}); without the option the status is 200
Respond(status, ok, message) ==
    /\ hres' = Append(hres, [route |-> hreq.route, status |-> status, ok |-> ok,
                             message |-> message, url |-> NoUrl,
                             steps |-> Append(hreq.steps, hreq.pc)])
    /\ hreq' = NoRequest
    /\ httpFrame

Continue(pc) ==
    /\ hreq' = [hreq EXCEPT !.pc = pc, !.steps = Append(@, hreq.pc)]
    /\ UNCHANGED hres
    /\ httpFrame

\* db-check/route.ts:3-47: an unset variable is answered with status
\* "error" (6-15); a value new URL() rejects only leaves databaseInfo at
\* "unknown" (19-25) and the answer is status "ok" (29-33)
dbCheckGET(url, throws) ==
    /\ Accepting
    /\ hres' = Append(hres,
           [route |-> "db-check", status |-> 200,
            ok |-> url.urlSet /\ ~throws,
            message |-> IF ~url.urlSet THEN "DATABASE_URL not set"
                        ELSE IF throws THEN "exception"
                        ELSE IF url.parses THEN "URL is valid, database: hostname"
                        ELSE "URL is valid, database: unknown",
            url |-> url, steps |-> <<>>])
    /\ UNCHANGED hreq
    /\ httpFrame

\* part_000:80-81
dbInitGET ==
    /\ Accepting
    /\ hreq' = [route |-> "db-init", pc |-> "connect", steps |-> <<>>]
    /\ UNCHANGED hres
    /\ httpFrame

\* part_000:126-135
dbInitCatch == Respond(500, FALSE, "exception")

\* part_000:83-92
dbInitConnect(outcome) ==
    /\ hreq.route = "db-init" /\ hreq.pc = "connect"
    /\ CASE outcome = "true"  -> Continue("initialize")
         [] outcome = "false" -> Respond(500, FALSE, "Failed to connect to database")
         [] OTHER             -> dbInitCatch

\* part_000:95-104
dbInitInitialize(outcome) ==
    /\ hreq.route = "db-init" /\ hreq.pc = "initialize"
    /\ CASE outcome = "true"  -> Continue("migrate")
         [] outcome = "false" -> Respond(500, FALSE, "Failed to initialize database tables")
         [] OTHER             -> dbInitCatch

\* part_000:107-116
dbInitMigrate(outcome) ==
    /\ hreq.route = "db-init" /\ hreq.pc = "migrate"
    /\ CASE outcome = "true"  -> Continue("seed")
         [] outcome = "false" -> Respond(500, FALSE, "Failed to migrate database schema")
         [] OTHER             -> dbInitCatch

\* part_000:119-125
dbInitSeed(outcome) ==
    /\ hreq.route = "db-init" /\ hreq.pc = "seed"
    /\ CASE outcome = "true"  -> Respond(200, TRUE, "seeded: true")
         [] outcome = "false" -> Respond(200, TRUE, "seeded: false")
         [] OTHER             -> dbInitCatch

\* db-reset/route.ts:4-5
dbResetGET ==
    /\ Accepting
    /\ hreq' = [route |-> "db-reset", pc |-> "reset", steps |-> <<>>]
    /\ UNCHANGED hres
    /\ httpFrame

\* db-reset/route.ts:34-46
dbResetCatch == Respond(200, FALSE, "exception")

\* db-reset/route.ts:7-16
dbResetReset(outcome) ==
    /\ hreq.route = "db-reset" /\ hreq.pc = "reset"
    /\ CASE outcome = "true"  -> Continue("seed")
         [] outcome = "false" -> Respond(200, FALSE, "Failed to reset Supabase database")
         [] OTHER             -> dbResetCatch

\* db-reset/route.ts:19-33
dbResetSeed(outcome) ==
    /\ hreq.route = "db-reset" /\ hreq.pc = "seed"
    /\ CASE outcome = "true"  -> Respond(200, TRUE, "reset and seeded")
         [] outcome = "false" -> Respond(200, FALSE, "Failed to seed initial data")
         [] OTHER             -> dbResetCatch

NextHttp ==
    \/ \E url \in {u \in [urlSet : BOOLEAN, parses : BOOLEAN] : u.parses => u.urlSet},
          throws \in BOOLEAN : dbCheckGET(url, throws)
    \/ dbInitGET
    \/ \E o \in Outcomes : dbInitConnect(o)
    \/ \E o \in Outcomes : dbInitInitialize(o)
    \/ \E o \in Outcomes : dbInitMigrate(o)
    \/ \E o \in Outcomes : dbInitSeed(o)
    \/ dbResetGET
    \/ \E o \in Outcomes : dbResetReset(o)
    \/ \E o \in Outcomes : dbResetSeed(o)

\* ---- processAppointmentPayment (route.ts:689-780) -------------------------

\* The columns the CREATE TABLE statements of the first release define
\* (db.ts:240-323), LaterColumns apart
BaseColumns(t) ==
    CASE t = "customers"    -> {"id", "name", "phone", "email", "visits", "last_visit",
                                "created_at"}
      [] t = "services"     -> {"id", "name", "duration", "price", "description",
                                "created_at"}
      [] t = "appointments" -> {"id", "customer_id", "service_id", "date", "time",
                                "duration", "status", "notes", "created_at"}
      [] t = "products"     -> {"id", "name", "category", "price", "stock",
                                "description", "created_at"}
      [] t = "sales"        -> {"id", "appointment_id", "customer_id", "total",
                                "payment_method", "date", "created_at"}
      [] t = "sale_items"   -> {"id", "sale_id", "price", "created_at"}

\* The columns table t has in schema s
ColumnsOf(s, t) ==
    IF tableExists(s, t)
    THEN BaseColumns(t) \cup {c \in {x[2] : x \in s.columns} : columnExists(s, t, c)}
    ELSE {}

\* The database accepts a statement naming these columns of table t
Names(t, cols) == cols \subseteq ColumnsOf(schema, t)

\* route.ts:721-723, 728-729, 744-745: the columns the three writes name
updateColumns == {"payment_status", "payment_method", "id"}
saleColumns == {"customer_id", "date", "total", "payment_method", "type"}
saleItemColumns == {"sale_id", "item_id", "item_type", "name", "price", "quantity"}

\* A sales table that was given a column `type` by other means than db.ts
WithSalesType == [Current EXCEPT !.columns = @ \cup {<<"sales", "type">>}]

PayIds == {1, 2}
Methods == {"card", "cash"}

\* services.price of the two services, as the driver renders a DECIMAL
servicePrice == <<Dec(50), Dec(0)>>

\* The appointments table: an appointment of customer 1 per id, or none
ApptTables ==
    {{[id |-> i, customer_id |-> 1, service_id |-> f[i], payment_status |-> "unpaid",
       payment_method |-> "none"] : i \in {x \in PayIds : f[x] # 0}} :
        f \in [PayIds -> 0..2]}

PayIdleLocals ==
    [pc |-> "idle", id |-> 0, method |-> "none", existed |-> FALSE,
     appointment |-> [customer_id |-> 0, service_id |-> 0, service_price |-> Dec(0)],
     saleId |-> 0, faulted |-> FALSE, failedAt |-> "none", calls |-> 0,
     result |-> [success |-> FALSE, message |-> "none"]]

InitPay ==
    /\ payAppts \in ApptTables
    /\ paySales = {}
    /\ payItems = {}
    /\ pay = PayIdleLocals
    /\ payFaults = 0

PayIdle ==
    /\ payAppts = {}
    /\ paySales = {}
    /\ payItems = {}
    /\ pay = PayIdleLocals
    /\ payFaults = 0

payFrame == UNCHANGED <<dbVars, apptVars, saleVars, admVars, crudVars, statVars, httpVars,
                        retryVars, seedVars>>

\* route.ts:773-779
payCatch(outside) ==
    pay' = [pay EXCEPT !.pc = "done",
                       !.failedAt = pay.pc,
                       !.faulted = @ \/ outside,
                       !.result = [success |-> FALSE, message |-> "error"]]

\* A query() of the call throws for a reason outside the statement
payFails(pc) ==
    /\ pay.pc = pc
    /\ payFaults < MaxFaults
    /\ payFaults' = payFaults + 1
    /\ payCatch(TRUE)
    /\ UNCHANGED <<payAppts, paySales, payItems>>
    /\ payFrame

\* route.ts:689-690
processAppointmentPayment(id, paymentMethod) ==
    /\ pay.pc \in {"idle", "done"}
    /\ pay.calls < MaxPayCalls
    /\ pay' = [PayIdleLocals EXCEPT !.pc = "select", !.id = id, !.method = paymentMethod,
                                    !.calls = pay.calls + 1]
    /\ UNCHANGED <<payAppts, paySales, payItems, payFaults>>
    /\ payFrame

\* route.ts:694-717
paySelect ==
    \/ /\ pay.pc = "select"
       /\ LET found == {a \in payAppts : a.id = pay.id}
          IN IF found = {}
             THEN pay' = [pay EXCEPT !.pc = "done",
                              !.result = [success |-> FALSE, message |-> "not found"]]
             ELSE LET a == CHOOSE x \in found : TRUE
                  IN pay' = [pay EXCEPT
                         !.pc = "update", !.existed = TRUE,
                         !.appointment = [customer_id |-> a.customer_id,
                                          service_id |-> a.service_id,
                                          service_price |-> servicePrice[a.service_id]]]
       /\ UNCHANGED <<payAppts, paySales, payItems, payFaults>>
       /\ payFrame
    \/ payFails("select")

payUpdate_deferred ==
    \/ /\ pay.pc = "update"
       /\ IF Names("appointments", updateColumns)
          THEN pay' = [pay EXCEPT !.pc = "insertSale"]
          ELSE payCatch(FALSE)
       /\ UNCHANGED <<payAppts, paySales, payItems, payFaults>>
       /\ payFrame
    \/ payFails("update")

\* route.ts:720-724
payUpdate ==
    \/ /\ pay.pc = "update"
       /\ IF Names("appointments", updateColumns)
          THEN /\ payAppts' = {IF a.id = pay.id
                               THEN [a EXCEPT !.payment_status = "paid",
                                              !.payment_method = pay.method]
                               ELSE a : a \in payAppts}
               /\ pay' = [pay EXCEPT !.pc = "insertSale"]
          ELSE /\ payCatch(FALSE)
               /\ UNCHANGED payAppts
       /\ UNCHANGED <<paySales, payItems, payFaults>>
       /\ payFrame
    \/ payFails("update")

\* route.ts:727-740. The statement leaves sales.appointment_id NULL; the
\* fields paidAppointment and call only record which call wrote the row.
payInsertSale ==
    \/ /\ pay.pc = "insertSale"
       /\ IF Names("sales", saleColumns)
          THEN /\ paySales' = paySales \cup
                       {[id |-> Cardinality(paySales) + 1,
                         customer_id |-> pay.appointment.customer_id,
                         total |-> pay.appointment.service_price,
                         payment_method |-> pay.method, type |-> "service",
                         paidAppointment |-> pay.id, call |-> pay.calls]}
               /\ pay' = [pay EXCEPT !.pc = "insertItem",
                                     !.saleId = Cardinality(paySales) + 1]
          ELSE /\ payCatch(FALSE)
               /\ UNCHANGED paySales
       /\ UNCHANGED <<payAppts, payItems, payFaults>>
       /\ payFrame
    \/ payFails("insertSale")

\* route.ts:743-754
payInsertItem ==
    \/ /\ pay.pc = "insertItem"
       /\ IF Names("sale_items", saleItemColumns)
          THEN /\ payItems' = payItems \cup
                       {[id |-> Cardinality(payItems) + 1, sale_id |-> pay.saleId,
                         item_id |-> pay.appointment.service_id, item_type |-> "service",
                         name |-> serviceNameOf(pay.appointment.service_id),
                         price |-> pay.appointment.service_price, quantity |-> 1]}
               /\ pay' = [pay EXCEPT !.pc = "return"]
          ELSE /\ payCatch(FALSE)
               /\ UNCHANGED payItems
       /\ UNCHANGED <<payAppts, paySales, payFaults>>
       /\ payFrame
    \/ payFails("insertItem")

\* route.ts:756-772
payReturn ==
    /\ pay.pc = "return"
    /\ pay' = [pay EXCEPT !.pc = "done",
                          !.result = [success |-> TRUE, message |-> "processed"]]
    /\ UNCHANGED <<payAppts, paySales, payItems, payFaults>>
    /\ payFrame

NextPay ==
    \/ \E id \in PayIds \cup {3}, paymentMethod \in Methods :
          processAppointmentPayment(id, paymentMethod)
    \/ paySelect
    \/ payUpdate
    \/ payInsertSale
    \/ payInsertItem
    \/ payReturn

\* ---- query() sending a statement that changes a row (db.ts:179-218) -------

\* route.ts:1167-1170 and 1174-1177: the two relative UPDATEs of
\* createProductSale, each sent by its own query() call
Statements == {"decrementStock", "incrementVisits"}

\* The row after the server executed the statement once
Effect(stmt, row) ==
    IF stmt = "decrementStock"
    THEN [row EXCEPT !.stock = @ - 1]
    ELSE [row EXCEPT !.visits = @ + 1]

\* The errors pool.query can reject with although the server executed the
\* statement: the connection was lost, or the client's timeout expired,
\* before the answer arrived
LostAnswers ==
    { <<"Connection", "terminated", "unexpectedly">>,
      <<"Query", "read", "timeout">> }

RetryIdleLocals ==
    [pc |-> "idle", stmt |-> "none", currentRetry |-> 0, ret |-> "none",
     before |-> [stock |-> 0, visits |-> 0]]

StartRow == [stock |-> 3, visits |-> 0]

InitRetry ==
    /\ rqRow = StartRow
    /\ rq = RetryIdleLocals
    /\ rqCalls = 0

RetryIdle == InitRetry

retryFrame == UNCHANGED <<dbVars, apptVars, saleVars, admVars, crudVars, statVars,
                          httpVars, payVars, seedVars>>

\* db.ts:170-181: query(text, params) with the pool in place
retryQuery(stmt) ==
    /\ rq.pc \in {"idle", "done"}
    /\ rqCalls < MaxRetryCalls
    /\ rqCalls' = rqCalls + 1
    /\ rq' = [pc |-> "attempt", stmt |-> stmt, currentRetry |-> 0, ret |-> "none",
              before |-> rqRow]
    /\ UNCHANGED rqRow
    /\ retryFrame

\* db.ts:183-213: one pass of the loop body.  The statement reaches the
\* server or not; when it does the server executes and commits it, and
\* the answer reaches the client or is lost.
retryAttempt ==
    /\ rq.pc = "attempt"
    /\ \/ /\ rqRow' = Effect(rq.stmt, rqRow)
          /\ rq' = [rq EXCEPT !.pc = "done", !.ret = "rows"]
       \/ \E executed \in BOOLEAN :
          \E msg \in (IF executed THEN LostAnswers ELSE Messages) :
             /\ rqRow' = IF executed THEN Effect(rq.stmt, rqRow) ELSE rqRow
             /\ IF isRetriableError(msg) /\ canRetry(rq.currentRetry)
                THEN rq' = [rq EXCEPT !.pc = "backoff", !.currentRetry = @ + 1]
                ELSE rq' = [rq EXCEPT !.pc = "done", !.ret = "throw"]
    /\ UNCHANGED rqCalls
    /\ retryFrame

\* db.ts:205-207 and 183, 217: the delay has elapsed and `continue` re-tests
\* the loop condition
retryBackoffDone ==
    /\ rq.pc = "backoff"
    /\ rq' = IF rq.currentRetry < maxRetries
             THEN [rq EXCEPT !.pc = "attempt"]
             ELSE [rq EXCEPT !.pc = "done", !.ret = "throw"]
    /\ UNCHANGED <<rqRow, rqCalls>>
    /\ retryFrame

NextRetry ==
    \/ \E stmt \in Statements : retryQuery(stmt)
    \/ retryAttempt
    \/ retryBackoffDone

\* ---- seedInitialData run by concurrent requests (db.ts:534-644) ----------

SeedIdleLocals ==
    [pc |-> "idle", idx |-> 1, customers |-> 0, services |-> 0, ret |-> "none"]

InitSeed ==
    /\ seedTables = [t \in {"customers", "services", "appointments", "products"} |-> 0]
    /\ seedRun = [p \in SeedProcs |-> SeedIdleLocals]
    /\ seedFaults = 0

SeedIdle == InitSeed

seedFrame == UNCHANGED <<dbVars, apptVars, saleVars, admVars, crudVars, statVars,
                         httpVars, payVars, retryVars>>

\* The locals of a run once table seedOrder[idx] is done: the next table,
\* or `return true` (db.ts:639-640)
SeedAfter(loc) ==
    IF loc.idx = Len(seedOrder)
    THEN [loc EXCEPT !.pc = "done", !.ret = "true"]
    ELSE [loc EXCEPT !.pc = "count", !.idx = @ + 1]

\* db.ts:641-643: a query() of the run throws and the catch returns false
seedRunCatch(p) ==
    /\ seedFaults < MaxFaults
    /\ seedFaults' = seedFaults + 1
    /\ seedRun' = [seedRun EXCEPT ![p].pc = "done", ![p].ret = "false"]
    /\ UNCHANGED seedTables
    /\ seedFrame

\* db.ts:534-536: a request calls seedInitialData
seedRunStart(p) ==
    /\ seedRun[p].pc = "idle"
    /\ seedRun' = [seedRun EXCEPT ![p].pc = "count"]
    /\ UNCHANGED <<seedTables, seedFaults>>
    /\ seedFrame

\* db.ts:539-544, 559-564, 580-585, 623-628: SELECT COUNT(*) FROM t and
\* the test of the count
seedRunCount(p) ==
    /\ seedRun[p].pc = "count"
    /\ \/ /\ LET t == seedOrder[seedRun[p].idx]
             IN seedRun' = [seedRun EXCEPT ![p] =
                   IF seedIfEmpty(seedTables[t])
                   THEN [@ EXCEPT !.pc = IF t = "appointments" THEN "lookupCustomers"
                                         ELSE "insert"]
                   ELSE SeedAfter(@)]
          /\ UNCHANGED <<seedTables, seedFaults>>
          /\ seedFrame
       \/ seedRunCatch(p)

\* db.ts:587: SELECT id FROM customers ORDER BY id LIMIT 4
seedRunLookupCustomers(p) ==
    /\ seedRun[p].pc = "lookupCustomers"
    /\ \/ /\ seedRun' = [seedRun EXCEPT
                 ![p].pc = "lookupServices",
                 ![p].customers = IF seedTables["customers"] > 4 THEN 4
                                  ELSE seedTables["customers"]]
          /\ UNCHANGED <<seedTables, seedFaults>>
          /\ seedFrame
       \/ seedRunCatch(p)

\* db.ts:588-593: SELECT id FROM services ORDER BY id LIMIT 5 and the test
\* that both lists have a row; db.ts:616-618 when one has none
seedRunLookupServices(p) ==
    /\ seedRun[p].pc = "lookupServices"
    /\ \/ /\ LET n == IF seedTables["services"] > 5 THEN 5 ELSE seedTables["services"]
             IN seedRun' = [seedRun EXCEPT ![p] =
                   IF seedRun[p].customers > 0 /\ n > 0
                   THEN [@ EXCEPT !.pc = "insert", !.services = n]
                   ELSE SeedAfter([@ EXCEPT !.services = n])]
          /\ UNCHANGED <<seedTables, seedFaults>>
          /\ seedFrame
       \/ seedRunCatch(p)

\* db.ts:546-555, 566-576, 606-614, 630-637: the INSERT of the VALUES list
seedRunInsert(p) ==
    /\ seedRun[p].pc = "insert"
    /\ \/ /\ LET t == seedOrder[seedRun[p].idx]
             IN seedTables' = [seedTables EXCEPT ![t] = @ + seedRows(t)]
          /\ seedRun' = [seedRun EXCEPT ![p] = SeedAfter(@)]
          /\ UNCHANGED seedFaults
          /\ seedFrame
       \/ seedRunCatch(p)

NextSeed ==
    \E p \in SeedProcs :
        \/ seedRunStart(p)
        \/ seedRunCount(p)
        \/ seedRunLookupCustomers(p)
        \/ seedRunLookupServices(p)
        \/ seedRunInsert(p)

\* The state of the variables a specification does not use
LaterIdle == StatsIdle /\ HttpIdle /\ PayIdle /\ RetryIdle /\ SeedIdle


DbIdle ==
    /\ env = [browser |-> FALSE, pg |-> TRUE, url |-> TRUE, reachable |-> TRUE,
              ctorThrows |-> FALSE]
    /\ pool = RealPool(1)
    /\ poolsMade = 1
    /\ verifiedPools = {1}
    /\ dpc = [p \in DbProcs |-> "idle"]
    /\ dop = [p \in DbProcs |-> "none"]
    /\ dcalls = [p \in DbProcs |-> 0]
    /\ currentRetry = [p \in DbProcs |-> 0]
    /\ lastError = [p \in DbProcs |-> NoError]
    /\ attempts = [p \in DbProcs |-> 0]
    /\ delays = [p \in DbProcs |-> <<>>]
    /\ allTransient = [p \in DbProcs |-> TRUE]
    /\ dlast = [p \in DbProcs |-> NoCall]
    /\ dprev = [p \in DbProcs |-> NoPrev]

ApptIdle ==
    /\ customers = CustIds
    /\ services = SvcIds
    /\ custVisits = [c \in CustIds |-> 0]
    /\ custLastVisit = [c \in CustIds |-> 0]
    /\ appointments = {}
    /\ apc = [p \in ApptProcs |-> "idle"]
    /\ aloc = [p \in ApptProcs |-> NoAppt]
    /\ ares = [p \in ApptProcs |-> NoApptResult]
    /\ acalls = 0
    /\ deletes = 0

SaleIdle ==
    /\ stock0 = [i \in ProdIds |-> 0]
    /\ committed = {}
    /\ pending = [c \in Conns |-> {}]
    /\ tx = [c \in Conns |-> "none"]
    /\ spc = [p \in SaleProcs |-> "idle"]
    /\ sloc = [p \in SaleProcs |-> NoSale]
    /\ sres = [p \in SaleProcs |-> "none"]
    /\ scalls = 0
    /\ faults = 0

\* One request handler making successive calls
NextDb ==
    \E p \in {1} :
        \/ (dcalls[p] < MaxDbCalls /\ ensureDatabaseConnection(p))
        \/ (dcalls[p] < MaxDbCalls /\ query(p))
        \/ initPoolImported(p)
        \/ initPoolVerified(p)
        \/ queryAttempt(p)
        \/ queryBackoffDone(p)

\* Concurrent request handlers, one call each
NextPool ==
    \E p \in DbProcs :
        \/ (dcalls[p] < 1 /\ ensureDatabaseConnection(p))
        \/ (dcalls[p] < 1 /\ query(p))
        \/ initPoolImported(p)
        \/ initPoolVerified(p)
        \/ queryAttempt(p)
        \/ queryBackoffDone(p)

InitSpecDb == InitDb /\ ApptIdle /\ SaleIdle /\ AdmIdle /\ CrudIdle /\ LaterIdle

SpecDb == InitSpecDb /\ [][NextDb]_vars

SpecPool == InitSpecDb /\ [][NextPool]_vars

InitSpecAppt == DbIdle /\ InitAppt /\ SaleIdle /\ AdmIdle /\ CrudIdle /\ LaterIdle

\* createProductSale with customer 1 registered and customer 2 not
InitSpec ==
    /\ DbIdle
    /\ customers = {1}
    /\ services = SvcIds
    /\ custVisits = [c \in CustIds |-> 0]
    /\ custLastVisit = [c \in CustIds |-> 0]
    /\ appointments = {}
    /\ apc = [p \in ApptProcs |-> "idle"]
    /\ aloc = [p \in ApptProcs |-> NoAppt]
    /\ ares = [p \in ApptProcs |-> NoApptResult]
    /\ acalls = 0
    /\ deletes = 0
    /\ InitSale
    /\ AdmIdle
    /\ CrudIdle /\ LaterIdle

Spec == InitSpec /\ [][NextSale]_vars

\* initDatabase, resetDatabase and seedInitialData on an empty database, on
\* one of the first release and on a current one, with or without rows
InitSpecSchema ==
    /\ InitAdmDb /\ ApptIdle /\ SaleIdle /\ CrudIdle /\ LaterIdle
    /\ InitAdm({EmptySchema, FirstRelease, Current}, {0, 1})

SpecSchema == InitSpecSchema /\ [][NextSchema]_vars

\* migrateDatabase on every schema between the first release and the
\* current one
InitSpecMigrate ==
    /\ InitAdmDb /\ ApptIdle /\ SaleIdle /\ CrudIdle /\ LaterIdle
    /\ InitAdm(StartSchemas, {0})

SpecMigrate == InitSpecMigrate /\ [][NextMigrate]_vars

\* The create, get-by-id, update and delete actions on either backend
InitSpecCrud == DbIdle /\ ApptIdle /\ SaleIdle /\ AdmIdle /\ InitCrud /\ LaterIdle

SpecCrud == InitSpecCrud /\ [][NextCrud]_vars

\* One getDashboardStats call over every content of the tables it reads
InitSpecStats ==
    DbIdle /\ ApptIdle /\ SaleIdle /\ AdmIdle /\ CrudIdle /\ InitStats /\ HttpIdle
    /\ PayIdle /\ RetryIdle /\ SeedIdle

SpecStats == InitSpecStats /\ [][NextStats]_vars

\* Successive requests to the three administrative endpoints
InitSpecHttp ==
    DbIdle /\ ApptIdle /\ SaleIdle /\ AdmIdle /\ CrudIdle /\ StatsIdle /\ InitHttp
    /\ PayIdle /\ RetryIdle /\ SeedIdle

SpecHttp == InitSpecHttp /\ [][NextHttp]_vars

\* Successive processAppointmentPayment calls, on the schema db.ts produces
\* and on one whose sales table has the column `type`
InitSpecPay ==
    /\ DbIdle /\ ApptIdle /\ SaleIdle /\ CrudIdle /\ StatsIdle /\ HttpIdle
    /\ RetryIdle /\ SeedIdle
    /\ InitAdm({Current, WithSalesType}, {0})
    /\ InitPay

SpecPay == InitSpecPay /\ [][NextPay]_vars

\* query() calls, one after the other, each sending a relative UPDATE
InitSpecRetry ==
    /\ DbIdle /\ ApptIdle /\ SaleIdle /\ AdmIdle /\ CrudIdle /\ StatsIdle /\ HttpIdle
    /\ PayIdle /\ InitRetry /\ SeedIdle

SpecRetry == InitSpecRetry /\ [][NextRetry]_vars

\* Two requests running seedInitialData on empty tables
InitSpecSeed ==
    /\ DbIdle /\ ApptIdle /\ SaleIdle /\ AdmIdle /\ CrudIdle /\ StatsIdle /\ HttpIdle
    /\ PayIdle /\ RetryIdle /\ InitSeed

SpecSeed == InitSpecSeed /\ [][NextSeed]_vars

SpecAppt == InitSpecAppt /\ [][NextAppt]_vars

-----------------------------------------------------------------------------
(***************************************************************************)
(* Properties of lib/db.ts                                                  *)
(***************************************************************************)

\* A query() call of request p has ended by throwing an error of pool.query
ThrewQueryError(p) ==
    /\ dpc[p] = "idle"
    /\ dlast[p].op = "query"
    /\ dlast[p].ret = "throw"
    /\ dlast[p].thrown.attempt >= 1

C7_NonTransientPropagates ==
    [][\A p \in DbProcs :
          (/\ attempts'[p] = attempts[p] + 1
           /\ lastError'[p].attempt = attempts'[p]
           /\ ~Transient(lastError'[p].msg))
          => /\ dpc'[p] = "idle"
             /\ dlast'[p].ret = "throw"
             /\ dlast'[p].thrown = lastError'[p]
             /\ delays'[p] = delays[p]
             /\ currentRetry'[p] = currentRetry[p]]_vars

\* a non-transient failure on the second attempt, one retry still unused
C7_Witness ==
    \E p \in DbProcs :
        /\ ThrewQueryError(p)
        /\ ~Transient(dlast[p].thrown.msg)
        /\ dlast[p].thrown.attempt = 2
        /\ attempts[p] = 2
        /\ delays[p] = <<1000>>

\* A client handle that can serve statements
Usable(pl) == pl.kind = "mock" \/ (pl.kind = "real" /\ pl.id \in verifiedPools)

\* C8: two successive ensureDatabaseConnection() calls return the same value
\* and leave the same pool handle, and a call returns true only when the
\* handle is the mock store or a pool whose connection was verified.
C8_EnsureIdempotent ==
    \A p \in DbProcs :
        (dpc[p] = "idle" /\ dlast[p].op = "ensure") =>
            /\ dprev[p].op = "ensure" =>
                  (dlast[p].ret = dprev[p].ret /\ dlast[p].pool = dprev[p].pool)
            /\ dlast[p].ret = "true" => Usable(dlast[p].pool)

C10_SinglePool == poolsMade <= 1

\* C10, second half: once assigned, the pool variable keeps its value.
C10_NeverReplaced == [][pool # NoPool => pool' = pool]_vars


-----------------------------------------------------------------------------
(***************************************************************************)
(* Properties of createAppointment                                          *)
(***************************************************************************)

\* A createAppointment call of request p has ended; its customer_id matched
\* no row and SELECT ... LIMIT 1 returned a customer.
FellBackToFirstCustomer(p) ==
    /\ apc[p] = "idle"
    /\ ares[p].status # "none"
    /\ ~aloc[p].custFound
    /\ aloc[p].firstCustomer # 0

\* C4 as stated: every call whose customer_id matches no row while a customer
\* row exists succeeds, and returns the first customer's id and name.
C4_FallbackSucceeds ==
    \A p \in ApptProcs :
        FellBackToFirstCustomer(p) =>
            /\ ares[p].status = "ok"
            /\ ares[p].customer_id = aloc[p].firstCustomer
            /\ ares[p].customer_name = customerNameOf(aloc[p].firstCustomer)

\* C4 amended: in such a call the INSERT uses the customer that
\* SELECT ... LIMIT 1 returned.  When that customer and the resolved service
\* exist as the INSERT runs, the call succeeds, inserts a row whose
\* customer_id is that customer's id and returns that customer's name;
\* otherwise the INSERT violates a foreign key and the call throws, inserting
\* nothing.
C4_FallbackSucceedsWhenResolvable ==
    [][\A p \in ApptProcs :
          (/\ apc[p] = "insert"
           /\ apc'[p] # "insert"
           /\ ~aloc[p].custFound
           /\ aloc[p].firstCustomer # 0)
          => IF aloc[p].firstCustomer \in customers /\ aloc[p].actualServiceId \in services
             THEN /\ apc'[p] = "idle"
                  /\ ares'[p].status = "ok"
                  /\ ares'[p].customer_id = aloc[p].firstCustomer
                  /\ ares'[p].customer_name = customerNameOf(aloc[p].firstCustomer)
                  /\ \E a \in appointments' \ appointments :
                        /\ a.id = ares'[p].id
                        /\ a.customer_id = aloc[p].firstCustomer
                  /\ Cardinality(appointments' \ appointments) = 1
             ELSE /\ apc'[p] = "idle"
                  /\ ares'[p].status = "raised"
                  /\ appointments' = appointments]_vars

C4_Witness ==
    \E p \in ApptProcs :
        /\ FellBackToFirstCustomer(p)
        /\ ares[p].status = "ok"
        /\ aloc[p].customer_id # aloc[p].firstCustomer
        /\ \E a \in appointments : a.id = ares[p].id /\ a.customer_id = aloc[p].firstCustomer

\* C5: every row of appointments referenced, when it was inserted, a row of
\* customers and a row of services that existed then.
C5_InsertedRowsResolve ==
    \A a \in appointments : a.customerExisted /\ a.serviceExisted

\* a row inserted through the first-customer fallback
C5_Witness ==
    \E a \in appointments :
        /\ a.askedCustomer # a.customer_id
        /\ a.customerExisted /\ a.serviceExisted

-----------------------------------------------------------------------------
(* createProductSale                                                        *)

\* The writes of call k, committed or still inside some transaction
WritesOf(k) == {w \in committed \cup UNION {pending[c] : c \in Conns} : w.call = k}

\* The committed writes of call k: what every reader sees
CommittedOf(k) == {w \in committed : w.call = k}

\* The call asks, for some product, for more than was in stock as it began
Insufficient(l) ==
    \E i \in 1..Len(l.items) :
        /\ l.items[i].productId \in ProdIds
        /\ l.items[i].quantity > l.stockAtCall[l.items[i].productId]

RECURSIVE SumPrice(_)
SumPrice(items) ==
    IF items = <<>> THEN 0
    ELSE productPrice[Head(items).productId] * Head(items).quantity + SumPrice(Tail(items))

\* The pieces of product i the items ask for
Requested(items, i) ==
    SumQty({Write("stock", 0, n, i, 0, items[n].quantity) :
               n \in {m \in 1..Len(items) : items[m].productId = i}})

\* C1: a createProductSale call for an existing customer that asks, for some
\* product, for more pieces than the product had in stock when the call began
\* writes nothing: no sales row, no sale_items row, no stock change and no
\* visits change of that call exists, committed or uncommitted; it never
\* returns {success: true}, and when no query() call failed for outside
\* reasons it returns {success: false}; with no other call made, every
\* product's stock and the customer's visits are what they were.
C1_InsufficientStockRejected ==
    \A p \in SaleProcs :
        LET l == sloc[p] IN
        (l.call # 0 /\ l.customerId \in customers /\ Insufficient(l)) =>
            /\ WritesOf(l.call) = {}
            /\ sres[p] # "true"
            /\ (spc[p] = "idle" /\ faults = 0 => sres[p] = "false")
            /\ scalls = 1 =>
                 /\ \A i \in ProdIds : Stock(committed, i) = l.stockAtCall[i]
                 /\ Visits(committed, l.customerId) = custVisits[l.customerId]

\* A call asking for two pieces of a product with one in stock has returned
\* {success: false} after the other call sold that product
C1_Witness ==
    \E p \in SaleProcs, q \in SaleProcs :
        /\ p # q
        /\ sloc[p].customerId \in customers /\ Insufficient(sloc[p])
        /\ spc[p] = "idle" /\ sres[p] = "false"
        /\ sres[q] = "true" /\ CommittedOf(sloc[q].call) # {}

\* The committed writes of call k are exactly those of a sale of the items
Recorded(k, customerId, items) ==
    /\ {w \in CommittedOf(k) : w.kind = "sale"}
         = {Write("sale", k, 0, customerId, SumPrice(items), 0)}
    /\ {w \in CommittedOf(k) : w.kind = "item"}
         = {Write("item", k, n, items[n].productId,
                  productPrice[items[n].productId], items[n].quantity) :
               n \in 1..Len(items)}
    /\ \A i \in ProdIds :
         SumQty({w \in CommittedOf(k) : w.kind = "stock" /\ w.ref = i})
           = Requested(items, i)

\* C2: once a createProductSale call has returned {success: true}, the
\* database holds exactly one sales row of that call, its total the sum of
\* price x quantity over the items, one sale_items row per item, and each
\* product's stock lowered by the quantity the call asked for.
C2_SuccessfulSaleRecorded ==
    \A p \in SaleProcs :
        (spc[p] = "idle" /\ sres[p] = "true") =>
            Recorded(sloc[p].call, sloc[p].customerId, sloc[p].items)

\* C3: once a createProductSale call in which a statement after the sales
\* INSERT failed has returned, no sales row, sale_items row or stock
\* decrement of that call is visible, whichever pooled connections served
\* its statements and whatever the other call did.
C3_FailedSaleLeavesNothing ==
    \A p \in SaleProcs :
        (spc[p] = "idle" /\ sloc[p].failedAfterSale) =>
            CommittedOf(sloc[p].call) = {}

-----------------------------------------------------------------------------
(* migrateDatabase, initDatabase, resetDatabase, seedInitialData            *)

\* The latest two completed calls were both op, the earlier returned true,
\* and the later met no failure from outside
TwiceInSuccession(op) ==
    /\ adm.pc = "idle"
    /\ alast.op = op /\ aprev.op = op
    /\ aprev.result = "true"
    /\ ~alast.outside

Kinds(log) == {log[i].kind : i \in 1..Len(log)}

\* C11: when migrateDatabase is run twice in succession and the first run
\* returns true, the second run returns true and issues no ALTER statement
\* and no CREATE statement of any kind.
C11_SecondRunIssuesNothing ==
    TwiceInSuccession("migrateDatabase") =>
        /\ alast.result = "true"
        /\ Kinds(alast.log) \cap {"ALTER TABLE", "CREATE TABLE", "CREATE FUNCTION"} = {}

\* C11 (as the code has it): the second run returns true, issues no ALTER
\* TABLE and no CREATE TABLE statement, and its only statement that is not a
\* SELECT is the CREATE OR REPLACE FUNCTION every run ends with; the schema
\* is what it was before the second run.
C11_SecondRunIssuesNoTableDdl ==
    TwiceInSuccession("migrateDatabase") =>
        /\ alast.result = "true"
        /\ alast.log = <<Stmt("CREATE FUNCTION", "init_sale_items_table")>>
        /\ schema = alast.before.schema

\* The first run added something, the second has returned
C11_Witness ==
    /\ TwiceInSuccession("migrateDatabase")
    /\ Len(aprev.log) > 2
    /\ alast.result = "true"

\* Every table and every later column exists
Complete(s) ==
    /\ s.tables = TableNames
    /\ \A t \in TableNames : \A c \in LaterColumns(t) : <<t, c>> \in s.columns

\* The statements that add what is missing in s, and nothing else
OnlyMissing(log, s) ==
    \A i \in 1..Len(log) :
        /\ log[i].kind = "CREATE TABLE" => log[i].table \notin s.tables
        /\ log[i].kind = "ALTER TABLE" =>
             \E c \in LaterColumns(log[i].table) : <<log[i].table, c>> \notin s.columns

\* C12: from every schema in which customers, services and appointments
\* exist and any subset of the later tables and columns is missing,
\* migrateDatabase returns true, afterwards every one of them exists, and
\* each was added only when it was missing.
C12_MigrateCompletesSchema ==
    (/\ adm.pc = "idle" /\ alast.op = "migrateDatabase" /\ ~alast.outside
     /\ alast.before.schema \in StartSchemas) =>
        /\ alast.result = "true"
        /\ Complete(schema)
        /\ OnlyMissing(alast.log, alast.before.schema)

\* In a run of initDatabase or resetDatabase every CREATE TABLE comes after
\* the CREATE TABLE of each table it references
ParentsCreatedFirst(log) ==
    \A i \in 1..Len(log) :
        log[i].kind = "CREATE TABLE" =>
            \A r \in References(log[i].table) :
                \E j \in 1..(i - 1) : log[j] = Stmt("CREATE TABLE", r)

\* Every DROP TABLE comes before the DROP TABLE of each table the dropped
\* one references, and before every CREATE TABLE
ChildrenDroppedFirst(log) ==
    \A i \in 1..Len(log) :
        log[i].kind = "DROP TABLE" =>
            /\ \A r \in References(log[i].table) :
                   \A j \in 1..Len(log) : log[j] = Stmt("DROP TABLE", r) => i < j
            /\ \A j \in 1..Len(log) : log[j].kind = "CREATE TABLE" => i < j

\* C13: initDatabase creates every table only after every table it
\* references by foreign key, resetDatabase drops children before parents
\* and drops all six tables before it recreates them; a run that returned
\* true created all six tables.
C13_DependencyOrder ==
    /\ adm.op \in {"initDatabase", "resetDatabase"} =>
          ParentsCreatedFirst(adm.log) /\ ChildrenDroppedFirst(adm.log)
    /\ alast.op \in {"initDatabase", "resetDatabase"} =>
          /\ ParentsCreatedFirst(alast.log) /\ ChildrenDroppedFirst(alast.log)
          /\ alast.result = "true" =>
                {alast.log[i].table : i \in {n \in 1..Len(alast.log) :
                                                alast.log[n].kind = "CREATE TABLE"}}
                   = TableNames
          /\ (alast.op = "resetDatabase" /\ alast.result = "true") =>
                {alast.log[i].table : i \in {n \in 1..Len(alast.log) :
                                                alast.log[n].kind = "DROP TABLE"}}
                   = TableNames

\* resetDatabase has dropped and recreated a database that had rows
C13_Witness ==
    /\ adm.pc = "idle"
    /\ alast.op = "resetDatabase" /\ alast.result = "true"
    /\ Len(alast.log) = Len(dropOrder) + Len(initOrder)
    /\ \E t \in TableNames : alast.before.rows[t] > 0

\* C14: initDatabase returns false when the pool initialization or one of
\* its statements fails, it never throws, and a second call straight after a
\* call that returned true returns true and leaves the tables, their columns
\* and their rows as they were.
C14_InitFailsSoftAndIdempotent ==
    /\ alast.op = "initDatabase" =>
          /\ alast.result \in {"true", "false"}
          /\ alast.failed <=> alast.result = "false"
    /\ TwiceInSuccession("initDatabase") =>
          /\ alast.result = "true"
          /\ schema = alast.before.schema
          /\ rows = alast.before.rows

\* initDatabase created the tables of an older database, and a second call
\* has returned with rows in place
C14_Witness ==
    /\ TwiceInSuccession("initDatabase")
    /\ aprev.before.schema = FirstRelease
    /\ alast.result = "true"
    /\ \E t \in TableNames : rows[t] > 0

Inserted(log) == {log[i].table : i \in {n \in 1..Len(log) : log[n].kind = "INSERT"}}

\* C15: seedInitialData inserts into a table only when its count check of
\* that table read zero, and a run straight after another run (one that met
\* no failure from outside) inserts no row into any table.
C15_SeedOnlyEmptyAndIdempotent ==
    /\ adm.op = "seedInitialData" =>
          \A t \in Inserted(adm.log) : adm.seen[t] = 0
    /\ alast.op = "seedInitialData" =>
          \A t \in Inserted(alast.log) : alast.seen[t] = 0
    /\ (/\ adm.pc = "idle"
        /\ alast.op = "seedInitialData" /\ aprev.op = "seedInitialData"
        /\ ~aprev.outside) =>
          /\ Inserted(alast.log) = {}
          /\ rows = alast.before.rows

\* A run that seeded some tables and skipped one with rows, followed by a
\* second run
C15_Witness ==
    /\ adm.pc = "idle"
    /\ alast.op = "seedInitialData" /\ aprev.op = "seedInitialData"
    /\ aprev.result = "true" /\ alast.result = "true"
    /\ Inserted(aprev.log) # {}
    /\ \E t \in TableNames : aprev.seen[t] > 0

\* ---- Properties of getDashboardStats -------------------------------------

\* The number of appointments dated today with a status of the set
TodayWith(statuses) ==
    LET n(s) == IF s \in statuses THEN stTable.appts[<<"today", s>>] ELSE 0
    IN n("beklemede") + n("onaylandi") + n("iptal")

\* C18: getDashboardStats returns todayAppointments.count equal to the
\* number of appointments dated today, confirmed equal to the number of
\* those with status 'onaylandi' and pending equal to the number with
\* 'beklemede', hence count >= confirmed + pending; when a query fails it
\* returns the all-zero statistics instead of raising.
C18_TodayCounts ==
    stat.pc = "done" =>
        IF stat.failed
        THEN stat.result = ZeroStats
        ELSE /\ stat.result.todayAppointments.count = TodayWith(Statuses)
             /\ stat.result.todayAppointments.confirmed = TodayWith({"onaylandi"})
             /\ stat.result.todayAppointments.pending = TodayWith({"beklemede"})
             /\ stat.result.todayAppointments.count >=
                    stat.result.todayAppointments.confirmed
                  + stat.result.todayAppointments.pending

\* A call that returned statistics for a day with confirmed, pending and
\* cancelled appointments, while other days have appointments too
C18_Witness ==
    /\ stat.pc = "done" /\ ~stat.failed
    /\ stat.result.todayAppointments.confirmed = 2
    /\ stat.result.todayAppointments.pending = 1
    /\ stat.result.todayAppointments.count = 4
    /\ stTable.appts[<<"other", "onaylandi">>] > 0

\* ---- Properties of the administrative endpoints --------------------------

\* C19: GET /api/db-check, GET /api/db-init and GET /api/db-reset answer
\* with HTTP status 200 in every outcome, failures and unexpected
\* exceptions included.
C19_AdminAlways200 ==
    \A i \in DOMAIN hres : hres[i].status = 200

\* ---- Properties of processAppointmentPayment -----------------------------

\* The call has returned for an appointment that exists, on the schema
\* initDatabase and migrateDatabase produce, and no query failed for an
\* outside reason
PaidOnCurrentSchema ==
    /\ schema = Current
    /\ pay.pc = "done" /\ pay.existed /\ ~pay.faulted
    /\ pay.calls = 1

\* C20: on the schema produced by initDatabase followed by migrateDatabase,
\* processAppointmentPayment(id, method) for an existing appointment returns
\* success: true, sets its payment_status to 'paid' and payment_method to
\* method, and creates exactly one Sale row, whose total is the service's
\* price, with exactly one SaleItem row referencing it.
C20_PaymentCreatesSale ==
    PaidOnCurrentSchema =>
        /\ pay.result.success
        /\ \A a \in payAppts :
              a.id = pay.id => a.payment_status = "paid" /\ a.payment_method = pay.method
        /\ Cardinality(paySales) = 1
        /\ \A s \in paySales :
              /\ s.total = pay.appointment.service_price
              /\ Cardinality({i \in payItems : i.sale_id = s.id}) = 1

\* ---- Further properties of createProductSale and createAppointment -------

\* C21: createProductSale never raises: whatever the input and whichever
\* of its statements fail, BEGIN and the ROLLBACK of its error handler
\* included, it returns an object with a success flag and a message.
C21_SaleNeverRaises ==
    \A p \in SaleProcs : sres[p] # "raised"

\* C22: a successful createAppointment call adds exactly 1 to the visit
\* count of the customer its new row references and sets that customer's
\* last_visit to the appointment date, also when that customer is the one
\* the first-customer fallback substituted. (Stated for the first call of a
\* behaviour, before which every count is 0, and a customer still there.)
C22_VisitCountedOnce ==
    \A p \in ApptProcs :
        (/\ apc[p] = "idle" /\ ares[p].status = "ok" /\ acalls = 1
         /\ ares[p].customer_id \in customers)
        => /\ custVisits[ares[p].customer_id] = 1
           /\ custLastVisit[ares[p].customer_id] = aloc[p].date

\* C25: product stock is never negative, whatever the sequence and
\* interleaving of createProductSale calls.
C25_StockNeverNegative ==
    \A i \in ProdIds : Stock(committed, i) >= 0

\* The appointment the call is about is marked paid with the call's method
MarkedPaid ==
    \A a \in payAppts :
        a.id = pay.id => a.payment_status = "paid" /\ a.payment_method = pay.method

\* The call returned success: false because its INSERT INTO sales or its
\* INSERT INTO sale_items failed
FailedAtInsert ==
    /\ pay.pc = "done" /\ ~pay.result.success
    /\ pay.failedAt \in {"insertSale", "insertItem"}

\* C23: processAppointmentPayment has a partial-failure gap: once the call
\* has returned success: false because the sale or the sale-item insert
\* failed, the appointment's payment_status is 'paid', and when it was the
\* sale insert that failed the call has left no Sale row.
C23_PartialFailureGap ==
    FailedAtInsert =>
        /\ MarkedPaid
        /\ pay.failedAt = "insertSale" =>
              ~\E s \in paySales : s.call = pay.calls

\* The first call failed at its sale insert: the appointment is paid and
\* the sales table is empty
C23_Witness ==
    /\ FailedAtInsert /\ pay.failedAt = "insertSale" /\ pay.calls = 1
    /\ \E a \in payAppts : a.id = pay.id /\ a.payment_status = "paid"
    /\ paySales = {}

C24_DbCheckValidatesUrl ==
    \A i \in DOMAIN hres :
        hres[i].route = "db-check" =>
            /\ hres[i].ok => (hres[i].url.urlSet /\ hres[i].url.parses)
            /\ (~hres[i].url.urlSet \/ ~hres[i].url.parses) => ~hres[i].ok

\* The steps of GET /api/db-init, in the order of the handler
InitSteps == <<"connect", "initialize", "migrate", "seed">>

\* C30: GET /api/db-init runs connect, initDatabase, migrateDatabase and
\* seedInitialData strictly in that order, each only after the one before
\* succeeded, and answers success: true only if all four steps, seeding
\* included, succeeded.
C30_InitStepsInOrder ==
    \A i \in DOMAIN hres :
        hres[i].route = "db-init" =>
            /\ hres[i].steps = SubSeq(InitSteps, 1, Len(hres[i].steps))
            /\ hres[i].ok => (hres[i].steps = InitSteps /\ hres[i].message = "seeded: true")

\* The columns that hold numbers
NumericFields == {"duration", "price", "stock"}

\* The value v is what the row holds in column f, whatever the driver's
\* rendering of a number
Holds(row, f, v) == IF f \in NumericFields THEN row[f][2] = v[2] ELSE row[f] = v

\* C29: an update of a customer, a service or a product that has a row of
\* the id stores exactly every field the argument supplies, zero and empty
\* values such as price 0, duration 0 or an empty name included, and leaves
\* every field not supplied as it was.
C29_UpdateStoresSupplied ==
    (/\ clast.op = "update" /\ clast.kind = "row"
     /\ clast.e \in {"customer", "service", "product"})
    => LET old == RowOf(clast.before[clast.e], clast.id)
           new == RowOf(crud[clast.e], clast.id)
       IN \A f \in DOMAIN clast.input :
              IF clast.input[f] = {}
              THEN new[f] = old[f]
              ELSE Holds(new, f, Given(clast.input[f], old[f]))

\* C27: the retry loop of query() applies the effect of a statement at most
\* once: whatever the attempts of a call met, an attempt that executed but
\* was reported as a transient error included, the row is as before the
\* call or as after one execution of its statement.
C27_EffectAtMostOnce ==
    rq.pc # "idle" => rqRow \in {rq.before, Effect(rq.stmt, rq.before)}

\* C28: two concurrent seedInitialData runs that start on empty tables and
\* both return true leave exactly one copy of the sample data: 4
\* customers, 5 services, 4 appointments and 5 products.
C28_SeedOnce ==
    (\A p \in SeedProcs : seedRun[p].pc = "done" /\ seedRun[p].ret = "true")
    => \A t \in DOMAIN seedTables : seedTables[t] = seedRows(t)
=============================================================================
